---- MODULE Spec2Model ----
(***************************************************************************)
(* Alarm orchestration core of edge-api: the dispatch service              *)
(* (app/workers/alarm_service.py), the wire schema (app/schemas/sensor.py) *)
(* and the device drivers (app/alarms/*.py).                               *)
(*                                                                         *)
(* The service runs on one cooperative scheduler (asyncio).  A task runs   *)
(* until it reaches an await that really suspends; only then may another   *)
(* task run.  The variable run names the task that holds the scheduler.    *)
(* Alarm messages are mutable Python objects that several places refer to  *)
(* at once (the active lists, the handler's batch and old_alarm, the       *)
(* timer's to_remove), so they live in a heap and are referred to by id.   *)
(***************************************************************************)
EXTENDS Integers, Sequences, FiniteSets, TLC

VARIABLES
    _sensors,         \* AlarmService._sensors: sensor id -> type id (cache)
    _sensor_types,    \* AlarmService._sensor_types: type id -> protocol name
    _active_sensors,  \* AlarmService._active_sensors, in dict insertion order
    heap,             \* AlarmMessage objects by object id
    run,              \* task holding the scheduler: "none", "handler", "timer"
    hpc,              \* position of _on_alarm_updated
    msg,              \* _on_alarm_updated: the bus message being handled
    alarm_msgs,       \* _on_alarm_updated: the parsed batch (object ids)
    groups,           \* _on_alarm_updated: (sensor_id, type_id) groups still to do
    sel_idx,          \* _on_alarm_updated: index of `alarm` in `selected`
    old_alarm,        \* _on_alarm_updated: the object old_alarm refers to (0: None)
    hres,             \* how the last _on_alarm_updated call ended
    tpc,              \* position of _timer_loop
    to_remove,        \* _timer_loop: list of (sensor_id, alarm object)
    hlog,             \* driver calls made by the current/last handler call
    tcall,            \* _timer_loop: the stop call it is suspended in
    lastCmd,          \* last driver command issued per sensor
    device,           \* what the device did with the call that has just returned
    deliveries,       \* number of bus deliveries so far
    db,               \* the configuration store: committed sensor and sensor-type rows
    rpc,              \* position of reload_cache / _load_sensor_cache
    pre,              \* the two mappings as they were when the reload began
    spc,              \* position of stop()
    stop_items,       \* stop(): the (sensor_id, list) items of the outer loop still to do
    stop_list,        \* stop(): the (sensor_id, alarm object) pairs of the inner loop
    scall,            \* stop(): the driver call it is suspended in
    _stop_event,      \* AlarmService._stop_event is set
    sbegin,           \* the sensors with a driver that were active when stop() began
    sstops,           \* the sensors a driver stop was issued for since stop() began
    mgr,              \* an AlertManager (aepel_speaker.py)
    clock,            \* datetime.now(), in ms
    lowest,           \* <<the least priority number add_event has let past
                      \* its max-duration check since the slot of mgr was
                      \* last empty>>, <<>> for none
    arg,              \* the arguments of a call of a driver function
    ret,              \* <<what the call returned>>, <<>> before the call
    _managers,        \* AEPELSpeakerAlarm: speaker_key -> AlertManager
    _tasks,           \* speaker_key -> task, in insertion order
    _running,         \* speaker_key -> running flag
    tasks,            \* the asyncio tasks created for _speaker_task, by number
    evict,            \* per caller of stop: the keys still to remove and the
                      \* task awaited in _remove_speaker_info (0 for none)
    cleanup_pc,       \* where cleanup() is: "idle", "gather", "done"
    gathered,         \* the tasks cleanup() awaits in asyncio.gather
    sends             \* how many events send has handed to add_event

vars == <<_sensors, _sensor_types, _active_sensors, heap, run, hpc, msg, alarm_msgs,
          groups, sel_idx, old_alarm, hres, tpc, to_remove, hlog, tcall,
          lastCmd, device, deliveries, db, rpc, pre,
          spc, stop_items, stop_list, scall, _stop_event, sbegin, sstops,
          mgr, clock, lowest, arg, ret,
          _managers, _tasks, _running, tasks, evict, cleanup_pc, gathered, sends>>

\* the variables of reload_cache and of stop()
cachev == <<db, rpc, pre>>

shutdownv == <<spc, stop_items, stop_list, scall, _stop_event, sbegin, sstops>>

\* the state of the AlarmService apart from the cache and the shutdown
servicev == <<_sensors, _sensor_types, _active_sensors, heap, run, hpc, msg,
              alarm_msgs, groups, sel_idx, old_alarm, hres, tpc, to_remove, hlog,
              tcall, lastCmd, device, deliveries>>

\* the AlarmService
appv == <<servicev, cachev, shutdownv>>

\* a call of a driver function
callv == <<arg, ret>>

\* the speaker driver
speakerv == <<_managers, _tasks, _running, tasks, evict, cleanup_pc, gathered, sends>>

\* the state inside the drivers
driversv == <<mgr, clock, lowest, callv, speakerv>>

\* what neither _on_alarm_updated nor _timer_loop writes
others == <<cachev, shutdownv, driversv>>

---------------------------------------------------------------------------
(* Bounds of the exploration *)

MaxBatch == 2
MaxDeliveries == 2

(* Program constants *)

INTERVAL_MS == 500

---------------------------------------------------------------------------
(* Universe of the explored inputs *)

SensorIds == {"S1", "S2"}

\* JSON values of the numeric wire fields: numbers, null and a string
NumberTokens == {"0", "1", "2"}

NoOnOff == -1   \* on_off = None

\* the (duration, regenInterval, priority) triples of well-formed objects
Timing(d, r, p) == [duration |-> d, regenInterval |-> r, priority |-> p]

ValidTimings == { Timing("1", "0", "0"), Timing("2", "1", "1") }

\* triples with one non-numeric field
BadTimings == { Timing("abc", "0", "0"), Timing("1", "abc", "0"), Timing("1", "0", "abc") }

WireItem(s, t, c, v, tm) ==
    [isdict |-> TRUE, id |-> s, typeId |-> t, alarmType |-> c, alarmValue |-> v,
     duration |-> tm.duration, regenInterval |-> tm.regenInterval,
     priority |-> tm.priority]

\* the well-formed objects explored: every value and timing on one key of S1,
\* a second category and a second type id on S1, and one key of S2
ValidItems ==
    { WireItem("S1", "T1", "LED", v, tm) : v \in {"RED", "YELLOW"}, tm \in ValidTimings }
    \cup { WireItem("S1", "T1", "BUZZER", "1", tm) : tm \in {Timing("1", "0", "0")} }
    \cup { WireItem("S1", "T2", "LED", "RED", tm) : tm \in {Timing("1", "0", "0")} }
    \cup { WireItem("S2", "T1", "LED", "1", tm) : tm \in {Timing("1", "0", "0")} }

BadItems == { WireItem("S1", "T1", "LED", "RED", tm) : tm \in BadTimings }

NonDictItem ==
    [isdict |-> FALSE, id |-> "", typeId |-> "", alarmType |-> "",
     alarmValue |-> "", duration |-> "null", regenInterval |-> "null",
     priority |-> "null"]

ProbeItems ==
    { WireItem("S1", "T1", "LED", "RED", tm) : tm \in ValidTimings }
        \cup {NonDictItem}

SeqsUpTo(S, n) == UNION { [1..k -> S] : k \in 1..n }

ValidPayloads ==
    { [kind |-> "array", items |-> items] : items \in SeqsUpTo(ValidItems, MaxBatch) }

MalformedPayloads ==
    { [kind |-> "invalid", items |-> <<>>], [kind |-> "nonarray", items |-> <<>>],
      [kind |-> "array", items |-> <<>>], [kind |-> "array", items |-> <<NonDictItem>>] }
    \cup { [kind |-> "array", items |-> items] :
             items \in { q \in SeqsUpTo(ProbeItems \cup BadItems, MaxBatch) :
                           \E i \in 1..Len(q) : q[i] \in BadItems } }

Payloads == ValidPayloads \cup MalformedPayloads

---------------------------------------------------------------------------
(* app/schemas/sensor.py: AlarmMessage *)

IntOf(tok) == CASE tok = "0" -> 0 [] tok = "1" -> 1 [] tok = "2" -> 2

\* int(data.get(key, default) or default): null and 0 are falsy and give the
\* default; int() of a non-numeric string raises ValueError
PyIntOr(tok, default) ==
    IF tok = "null" THEN [ok |-> TRUE, val |-> default]
    ELSE IF tok \notin NumberTokens THEN [ok |-> FALSE, val |-> 0]
    ELSE IF IntOf(tok) = 0 THEN [ok |-> TRUE, val |-> default]
    ELSE [ok |-> TRUE, val |-> IntOf(tok)]

from_dict(data) ==
    LET d == PyIntOr(data.duration, 1)
        r == PyIntOr(data.regenInterval, 0)
        p == PyIntOr(data.priority, 0)
    IN  [ok |-> d.ok /\ r.ok /\ p.ok,
         msg |-> [id |-> data.id, type_id |-> data.typeId,
                  alarm_type |-> data.alarmType, alarm_value |-> data.alarmValue,
                  duration |-> d.val, regen_interval |-> r.val,
                  priority |-> p.val, on_off |-> NoOnOff]]

\* list_from_payload: [] for a non-list, else from_dict of every dict item;
\* an item from_dict raises on makes the whole call raise
list_from_payload(payload) ==
    IF payload.kind # "array" THEN [ok |-> TRUE, msgs |-> <<>>]
    ELSE LET dicts == SelectSeq(payload.items, LAMBDA it : it.isdict)
             res == [i \in 1..Len(dicts) |-> from_dict(dicts[i])]
         IN  [ok |-> \A i \in 1..Len(dicts) : res[i].ok,
              msgs |-> [i \in 1..Len(dicts) |-> res[i].msg]]

\* the program fields of an AlarmMessage (pydantic __eq__ compares these)
Fields(o) ==
    [id |-> o.id, type_id |-> o.type_id, alarm_type |-> o.alarm_type,
     alarm_value |-> o.alarm_value, duration |-> o.duration,
     regen_interval |-> o.regen_interval, priority |-> o.priority,
     on_off |-> o.on_off]

AlarmEq(a, b) == Fields(a) = Fields(b)

\* what a driver call shows of an alarm
View(o) == [alarm_type |-> o.alarm_type, type_id |-> o.type_id,
            alarm_value |-> o.alarm_value]

Views(h, ids) == [i \in 1..Len(ids) |-> View(h[ids[i]])]

---------------------------------------------------------------------------
(* app/alarms: the drivers *)

Modules == {"Adam6050", "IoLogik_E1211", "AEPEL_IPSpeaker", "LA6_POE"}

\* what the device does with a request
Outcomes == {"ok", "refused", "timeout", "non2xx", "nak"}

IsNumeric(v) == v \in {"0", "1", "2", "3"}

\* `except Exception` around a body: whatever the body raised is logged
Caught(result) == "returned"

\* IoLogikE1211Alarm._update_do_state / _get_do_state: httpx raises on a
\* refused connection or a timeout; a non-2xx answer is logged
HttpRequest(outcome) ==
    IF outcome \in {"refused", "timeout"} THEN "raised" ELSE "returned"

_update_do_state(outcome) == Caught(HttpRequest(outcome))

\* int(alarm_value) outside the try: a ValueError leaves the driver
IoLogikOneUnguarded(value, outcome) ==
    IF ~IsNumeric(value) THEN "raised" ELSE _update_do_state(outcome)

\* one alarm of IoLogikE1211Alarm.send, or stop: int(alarm_value) raises
\* ValueError for a non-numeric value, inside the try
IoLogikOne(value, outcome) ==
    Caught(IF ~IsNumeric(value) THEN "raised" ELSE _update_do_state(outcome))

\* LA6PoeAlarm._send_pns_command: socket.create_connection raises on refusal
\* or timeout, a NAK or an empty answer is logged
_send_pns_command(outcome) ==
    Caught(IF outcome \in {"refused", "timeout"} THEN "raised" ELSE "returned")

_detail_run_control(outcome) == Caught(_send_pns_command(outcome))

AllReturned(rs) == IF \A i \in 1..Len(rs) : rs[i] = "returned"
                   THEN "returned" ELSE "raised"

\* module.send(sensor_info, alarms): "returned" or "raised"
DriverSend(protocol, values, outcome) ==
    CASE protocol = "Adam6050" -> "returned"
      [] protocol = "IoLogik_E1211" ->
            AllReturned([i \in 1..Len(values) |-> IoLogikOne(values[i], outcome)])
      [] protocol = "AEPEL_IPSpeaker" -> Caught("returned")
      [] protocol = "LA6_POE" -> _detail_run_control(outcome)

\* module.stop(sensor_info, alarm)
DriverStop(protocol, value, outcome) ==
    CASE protocol = "Adam6050" -> "returned"
      [] protocol = "IoLogik_E1211" -> IoLogikOne(value, outcome)
      [] protocol = "AEPEL_IPSpeaker" -> Caught("returned")
      [] protocol = "LA6_POE" -> _detail_run_control(outcome)

\* whether the call reaches an await that suspends the caller: httpx I/O for
\* IoLogik (only when int(alarm_value) succeeded), asyncio.to_thread for LA6;
\* Adam6050 only logs and the speaker's send only queues
Suspends(protocol, values) ==
    CASE protocol = "LA6_POE" -> TRUE
      [] protocol = "IoLogik_E1211" -> \E i \in 1..Len(values) : IsNumeric(values[i])
      [] OTHER -> FALSE

---------------------------------------------------------------------------
(* app/alarms/la6_poe.py: LA6PoeAlarm._build_command_array *)

\* [led1, led2, led3, led4, led5, blinking, buzzer]
DEFAULT_COMMANDS == <<"4", "4", "4", "4", "4", "0", "0">>

\* str.upper() on the texts that are tried
upper(text) ==
    CASE text = "led" -> "LED"
      [] text = "red" -> "RED"
      [] OTHER -> text

\* int(alarm_value.replace("PATTERN", "")): <<the number>>, <<>> for ValueError
PatternNumber(alarm_value) ==
    CASE alarm_value = "PATTERN0" -> <<0>>
      [] alarm_value = "PATTERN2" -> <<2>>
      [] alarm_value = "PATTERN3" -> <<3>>
      [] alarm_value = "PATTERN7" -> <<7>>
      [] OTHER -> <<>>

\* alarm_value.startswith("PATTERN")
StartsWithPattern(alarm_value) ==
    alarm_value \in {"PATTERN", "PATTERNX", "PATTERN0", "PATTERN2", "PATTERN3",
                     "PATTERN7"}

\* max(1, min(pat, 3))
Clamp(pat) ==
    LET least == IF pat < 3 THEN pat ELSE 3
    IN  IF 1 > least THEN 1 ELSE least

\* all five LED fields set to led, blinking to "0"
Leds(cmd, led) ==
    [i \in 1..7 |-> IF i <= 5 THEN led ELSE IF i = 6 THEN "0" ELSE cmd[i]]

\* a GREEN that also silences the buzzer
LedGreenSilent(cmd) == [Leds(cmd, "4") EXCEPT ![7] = "0"]

\* lines 63-66: LED = GREEN
LedGreen(cmd) == Leds(cmd, "4")

\* lines 68-71: LED = NONE
LedNone(cmd) == Leds(cmd, "1")

\* an ON that overrides the pattern
BuzzerOnAlways(cmd) == [cmd EXCEPT ![7] = "1"]

\* lines 76-78: BUZZER = ON
BuzzerOn(cmd) == IF cmd[7] = "0" THEN [cmd EXCEPT ![7] = "1"] ELSE cmd

\* lines 47-85: the body of the loop for one alarm
ApplyAlarm(cmd, alarm) ==
    LET alarm_type == upper(alarm.alarm_type)
        alarm_value == upper(alarm.alarm_value)
    IN  IF alarm_type = "LED"
        THEN CASE alarm_value = "RED" -> [Leds(cmd, "1") EXCEPT ![7] = "1"]
               [] alarm_value = "YELLOW" -> [Leds(cmd, "2") EXCEPT ![7] = "9"]
               [] alarm_value = "GREEN" -> LedGreen(cmd)
               [] alarm_value = "NONE" -> LedNone(cmd)
               [] OTHER -> cmd
        ELSE IF alarm_type = "BUZZER"
        THEN CASE alarm_value = "OFF" -> [cmd EXCEPT ![7] = "0"]
               [] alarm_value = "ON" -> BuzzerOn(cmd)
               [] alarm_value \notin {"OFF", "ON"} /\ StartsWithPattern(alarm_value) ->
                     IF PatternNumber(alarm_value) = <<>>
                     THEN [cmd EXCEPT ![7] = "1"]
                     ELSE [cmd EXCEPT
                             ![7] = ToString(Clamp(PatternNumber(alarm_value)[1]))]
               [] OTHER -> cmd
        ELSE cmd

\* the loop of line 46 from the i-th alarm on
RECURSIVE BuildFrom(_, _, _)
BuildFrom(cmd, alarms, i) ==
    IF i > Len(alarms) THEN cmd
    ELSE BuildFrom(ApplyAlarm(cmd, alarms[i]), alarms, i + 1)

_build_command_array(alarms) == BuildFrom(DEFAULT_COMMANDS, alarms, 1)

---------------------------------------------------------------------------
(* app/alarms/base.py: SensorInfo.is_current_time_restricted *)

\* now.hour * 60 + now.minute ranges over 0 .. MinutesOfDay - 1
MinutesOfDay == 24 * 60

\* an overnight window that leaves out its two end minutes
is_current_time_restricted_open(sensor, current_minutes) ==
    IF ~sensor.is_time_restricted THEN FALSE
    ELSE IF sensor.time_restricted_start = sensor.time_restricted_end THEN FALSE
    ELSE IF sensor.time_restricted_start < sensor.time_restricted_end
    THEN /\ sensor.time_restricted_start <= current_minutes
         /\ current_minutes <= sensor.time_restricted_end
    ELSE \/ current_minutes > sensor.time_restricted_start
         \/ current_minutes < sensor.time_restricted_end

\* sensor.is_current_time_restricted() when now is current_minutes after
\* midnight
is_current_time_restricted(sensor, current_minutes) ==
    IF ~sensor.is_time_restricted THEN FALSE
    ELSE IF sensor.time_restricted_start = sensor.time_restricted_end THEN FALSE
    ELSE IF sensor.time_restricted_start < sensor.time_restricted_end
    THEN /\ sensor.time_restricted_start <= current_minutes
         /\ current_minutes <= sensor.time_restricted_end
    ELSE \/ current_minutes >= sensor.time_restricted_start
         \/ current_minutes <= sensor.time_restricted_end

---------------------------------------------------------------------------
(* app/alarms/aepel_speaker.py: AlertManager *)

MARGIN_TIMEOUT_TIME == 2000

\* datetime.min: before every time of the clock
DatetimeMin == -1

\* EventAlertState(): the empty next_alert of a new manager (times are "now"
\* of the construction, which nothing reads while is_set is false)
NoAlert ==
    [is_set |-> FALSE, last_alert_time |-> DatetimeMin, last_detected_time |-> 0,
     start_time |-> 0, event_interval |-> 3000, voice_port |-> "1", priority |-> 10]

\* AlertManager(max_time_second, pause_time_second)
AlertManager(max_time_second, pause_time_second) ==
    [max_time_second |-> max_time_second, pause_time_second |-> pause_time_second,
     alert_states |-> <<>>, next_alert |-> NoAlert]

\* no manager at all
NoManager == AlertManager(0, 0)

\* lines 56-74: the state of the port, created if need be, with interval and
\* priority taken over, the window restarted if the last detection is older
\* than interval + margin, and the detection time refreshed
Detected(m, t, voice_port, priority, event_interval) ==
    LET cur == IF voice_port \in DOMAIN m.alert_states
               THEN m.alert_states[voice_port]
               ELSE [is_set |-> FALSE, last_alert_time |-> DatetimeMin,
                     last_detected_time |-> t, start_time |-> t,
                     event_interval |-> event_interval, voice_port |-> voice_port,
                     priority |-> priority]
        timeout_ms == event_interval + MARGIN_TIMEOUT_TIME
    IN  [cur EXCEPT !.event_interval = event_interval,
                    !.voice_port = voice_port,
                    !.priority = priority,
                    !.start_time = IF cur.last_detected_time + timeout_ms < t
                                   THEN t ELSE @,
                    !.last_detected_time = t]

\* a check that lets every event past
CutOffNever(m, t, cur) == FALSE

\* line 77: the port has been detected for longer than max_time_second
CutOff(m, t, cur) == cur.start_time + m.max_time_second * 1000 < t

\* a comparison that lets the pending candidate win always
KeepsPendingAlways(next, cur, priority) == next.is_set

\* a comparison that lets the pending candidate win every tie
KeepsPendingOnTie(next, cur, priority) ==
    /\ next.is_set
    /\ \/ next.priority < priority
       \/ next.priority = priority

\* lines 81-88: the pending candidate stays
KeepsPending(next, cur, priority) ==
    /\ next.is_set
    /\ \/ next.priority < priority
       \/ /\ next.priority = priority
          /\ next.last_alert_time < cur.last_alert_time

\* AlertManager.add_event at time t: the manager afterwards
add_event(m, t, voice_port, priority, event_interval) ==
    LET cur == Detected(m, t, voice_port, priority, event_interval)
        seen == [m EXCEPT !.alert_states =
                    (voice_port :> cur) @@ m.alert_states]
    IN  IF CutOff(m, t, cur) THEN seen
        ELSE IF KeepsPending(m.next_alert, cur, priority) THEN seen
        ELSE [seen EXCEPT !.next_alert = [cur EXCEPT !.is_set = TRUE]]

\* a pop that returns the candidate whatever its age
get_next_event_unchecked(m, t) ==
    IF ~m.next_alert.is_set THEN [port |-> "", mgr |-> m]
    ELSE [port |-> m.next_alert.voice_port,
          mgr |-> [m EXCEPT !.next_alert.is_set = FALSE,
                            !.alert_states[m.next_alert.voice_port].last_alert_time = t]]

\* AlertManager.get_next_event at time t: the voice port returned ("" for
\* none) and the manager afterwards
get_next_event(m, t) ==
    LET next == m.next_alert
        cleared == [m EXCEPT !.next_alert.is_set = FALSE]
    IN  IF ~next.is_set THEN [port |-> "", mgr |-> m]
        ELSE IF next.last_detected_time + next.event_interval + MARGIN_TIMEOUT_TIME < t
        THEN [port |-> "", mgr |-> cleared]
        ELSE IF next.start_time + m.max_time_second * 1000 < t
        THEN [port |-> "", mgr |-> cleared]
        ELSE [port |-> next.voice_port,
              mgr |-> [cleared EXCEPT
                         !.alert_states[next.voice_port].last_alert_time = t]]

---------------------------------------------------------------------------
(* AlarmService: lookups *)

NotFound == "<none>"

\* _get_sensor_and_type, then self._modules.get(type_name): the protocol
\* name of the module to call, or NotFound
ModuleIn(sensors, types, sensor_id) ==
    IF sensor_id \notin DOMAIN sensors THEN NotFound
    ELSE IF sensors[sensor_id] \notin DOMAIN types THEN NotFound
    ELSE IF types[sensors[sensor_id]] \notin Modules THEN NotFound
    ELSE types[sensors[sensor_id]]

ModuleFor(sensor_id) == ModuleIn(_sensors, _sensor_types, sensor_id)

(* _active_sensors is a dict in insertion order: a sequence of entries *)

Keys(d) == { d[i].sensor_id : i \in 1..Len(d) }

IndexOf(d, sid) == CHOOSE i \in 1..Len(d) : d[i].sensor_id = sid

Get(d, sid) == IF sid \in Keys(d) THEN d[IndexOf(d, sid)].alarms ELSE <<>>

\* d[sid] = alarms; a new key goes to the end
Put(d, sid, alarms) ==
    IF sid \in Keys(d)
    THEN [d EXCEPT ![IndexOf(d, sid)].alarms = alarms]
    ELSE Append(d, [sensor_id |-> sid, alarms |-> alarms])

Pop(d, sid) == SelectSeq(d, LAMBDA e : e.sensor_id # sid)

SeqToSet(s) == { s[i] : i \in 1..Len(s) }

ActiveIds(d) == UNION { SeqToSet(d[i].alarms) : i \in 1..Len(d) }

---------------------------------------------------------------------------
(* The heap of AlarmMessage objects *)

\* the n lowest object ids not in use
NewIds(h, n) ==
    LET free == (1..(Cardinality(DOMAIN h) + n)) \ DOMAIN h
    IN  [i \in 1..n |-> CHOOSE k \in free : Cardinality({j \in free : j < k}) = i - 1]

\* objects nothing refers to any more are dropped
Collect(h, d, msgs, old, tr) ==
    LET refs == ActiveIds(d) \cup SeqToSet(msgs) \cup {old}
                  \cup { tr[i][2] : i \in 1..Len(tr) }
                  \cup { stop_list[i][2] : i \in 1..Len(stop_list) }
    IN  [o \in (DOMAIN h \cap refs) |-> h[o]]

\* a parsed message as a fresh object; duration and regen_interval in ms;
\* ticks and ingested record the countdown the object was last given
NewAlarm(a) ==
    [id |-> a.id, type_id |-> a.type_id, alarm_type |-> a.alarm_type,
     alarm_value |-> a.alarm_value, duration |-> a.duration * 1000,
     regen_interval |-> a.regen_interval * 1000, priority |-> a.priority,
     on_off |-> a.on_off, ticks |-> 0, ingested |-> a.duration * 1000]

\* an update that leaves the priority as it was
UpdateAlarmKeepsPriority(old, new) ==
    [old EXCEPT !.alarm_value = new.alarm_value, !.duration = new.duration,
                !.regen_interval = new.regen_interval,
                !.ticks = 0, !.ingested = new.duration]

\* lines 233-236: the existing entry takes the new message's values
UpdateAlarm(old, new) ==
    [old EXCEPT !.alarm_value = new.alarm_value, !.duration = new.duration,
                !.regen_interval = new.regen_interval, !.priority = new.priority,
                !.ticks = 0, !.ingested = new.duration]

---------------------------------------------------------------------------
(* The sensor cache as loaded by _load_sensor_cache *)

TypeNames ==
    ("T1" :> "LA6_POE") @@ ("T2" :> "IoLogik_E1211") @@ ("T3" :> "Adam6050")
        @@ ("T4" :> "AEPEL_IPSpeaker") @@ ("T5" :> "Legacy")

\* the loaded sensors: both on drivers that do device I/O; an IoLogik and a
\* speaker; a placeholder driver and an unregistered S2; S1 of a type without
\* a name (T6) and S2 of a type whose name has no module
SensorSnapshots ==
    { ("S1" :> "T1") @@ ("S2" :> "T2"),
      ("S1" :> "T2") @@ ("S2" :> "T4"),
      ("S1" :> "T3"),
      ("S1" :> "T6") @@ ("S2" :> "T5") }

NoMsg == [kind |-> "none", items |-> <<>>]

NoCall == [protocol |-> NotFound, values |-> <<>>]

\* the service as constructed: nothing active, handler idle, timer asleep
InitService ==
    /\ _active_sensors = <<>>
    /\ heap = <<>>
    /\ run = "none"
    /\ hpc = "idle"
    /\ msg = NoMsg
    /\ alarm_msgs = <<>>
    /\ groups = <<>>
    /\ sel_idx = 0
    /\ old_alarm = 0
    /\ hres = "none"
    /\ tpc = "sleep"
    /\ to_remove = <<>>
    /\ hlog = <<>>
    /\ tcall = NoCall
    /\ lastCmd = [s \in SensorIds |-> "none"]
    /\ device = "none"
    /\ deliveries = 0

\* no reload in progress: the mappings are the store's
InitCache ==
    /\ db = [sensors |-> _sensors, types |-> _sensor_types]
    /\ rpc = "idle"
    /\ pre = db

\* stop() has not been called
InitShutdown ==
    /\ spc = "idle"
    /\ stop_items = <<>>
    /\ stop_list = <<>>
    /\ scall = NoCall
    /\ _stop_event = FALSE
    /\ sbegin = {}
    /\ sstops = {}

\* the drivers as constructed; the speaker driver has its own specifications
Evictors == {"handler", "timer"}

\* AEPELSpeakerAlarm.__init__: nothing tracked, nobody in stop or cleanup
NoSpeakers ==
    /\ _managers = <<>>
    /\ _tasks = <<>>
    /\ _running = <<>>
    /\ tasks = <<>>
    /\ evict = [c \in Evictors |-> [keys |-> <<>>, waiting |-> 0]]
    /\ cleanup_pc = "idle"
    /\ gathered = {}
    /\ sends = 0

InitDrivers ==
    /\ mgr = NoManager
    /\ clock = 0
    /\ lowest = <<>>
    /\ arg = <<>>
    /\ ret = <<>>
    /\ NoSpeakers

Init ==
    /\ _sensors \in SensorSnapshots
    /\ _sensor_types = TypeNames
    /\ InitService
    /\ InitCache
    /\ InitShutdown
    /\ InitDrivers

---------------------------------------------------------------------------
(* AlarmService._on_alarm_updated *)

Perms(S) == { f \in [1..Cardinality(S) -> S] : \A i, j \in DOMAIN f : f[i] = f[j] => i = j }

RECURSIVE Flatten(_)
Flatten(ss) == IF ss = <<>> THEN <<>> ELSE Head(ss) \o Flatten(Tail(ss))

\* lines 203-211: for type_id in type_ids: for sensor_id in sensor_ids, the
\* pairs with a non-empty selection; the sets are iterated in some order
GroupSeq(msgs, torder, sorder) ==
    Flatten([i \in 1..Len(torder) |->
        SelectSeq([j \in 1..Len(sorder) |-> <<sorder[j], torder[i]>>],
                  LAMBDA g : \E k \in 1..Len(msgs) :
                                msgs[k].id = g[1] /\ msgs[k].type_id = g[2])])

\* lines 205-209: selected
Selected(h, msgs, g) ==
    SelectSeq(msgs, LAMBDA o : h[o].id = g[1] /\ h[o].type_id = g[2])

\* a lookup that also compares alarm_value finds nothing when the value changed
MatchesWithValue(h, alarms, alarm) ==
    { i \in 1..Len(alarms) : /\ h[alarms[i]].alarm_type = h[alarm].alarm_type
                             /\ h[alarms[i]].type_id = h[alarm].type_id
                             /\ h[alarms[i]].alarm_value = h[alarm].alarm_value }

\* lines 215-223: the first active alarm of the same alarm_type and type_id
Matches(h, alarms, alarm) ==
    { i \in 1..Len(alarms) : /\ h[alarms[i]].alarm_type = h[alarm].alarm_type
                             /\ h[alarms[i]].type_id = h[alarm].type_id }

OldAlarm(h, alarms, alarm) ==
    IF Matches(h, alarms, alarm) = {} THEN 0
    ELSE alarms[CHOOSE i \in Matches(h, alarms, alarm) :
                   \A j \in Matches(h, alarms, alarm) : i <= j]

Issue(op, sid) == lastCmd' = [lastCmd EXCEPT ![sid] = op]

MarkDone(log) == [log EXCEPT ![Len(log)].done = TRUE]

\* what is remembered of a device outcome: whether the request failed
Seen(outcome) == IF outcome = "ok" THEN "ok" ELSE "failed"

\* the handler returns or raises; result says which
HandlerEnds(result, h) ==
    /\ hpc' = "done"
    /\ hres' = result
    /\ run' = "handler"
    /\ UNCHANGED <<alarm_msgs, groups, sel_idx, old_alarm>>
    /\ heap' = h

\* the for loop over selected moves on, or ends and the send follows
NextAlarm ==
    /\ sel_idx' = sel_idx + 1
    /\ hpc' = IF sel_idx + 1 > Len(Selected(heap, alarm_msgs, Head(groups)))
              THEN "send" ELSE "merge"
    /\ old_alarm' = 0
    /\ run' = "handler"

\* self._active_sensors[sid] on the defaultdict: a missing key gets an empty
\* list
Touched(d, sid) == IF sid \in Keys(d) THEN d ELSE Put(d, sid, <<>>)

\* lines 240-243: the log line looks the sensor up in _active_sensors; then
\* the loops over type_ids and sensor_ids move on, or the handler returns
NextGroup ==
    /\ _active_sensors' = Touched(_active_sensors, Head(groups)[1])
    /\ IF Len(groups) = 1
       THEN HandlerEnds("returned", heap)
       ELSE /\ groups' = Tail(groups)
            /\ sel_idx' = 1
            /\ hpc' = "merge"
            /\ old_alarm' = 0
            /\ run' = "handler"
            /\ UNCHANGED <<heap, alarm_msgs, hres>>

\* lines 183-201
_on_alarm_updated(payload) ==
    /\ device' = "none"
    /\ run = "none"
    /\ hpc = "idle"
    /\ deliveries < MaxDeliveries
    /\ deliveries' = deliveries + 1
    /\ msg' = payload
    /\ hlog' = <<>>
    /\ UNCHANGED <<others, _sensors, _sensor_types, _active_sensors, tpc, to_remove,
                   tcall, lastCmd>>
    /\ LET parsed == list_from_payload(payload)
       IN  IF payload.kind = "invalid"
           THEN HandlerEnds("returned", heap)
           ELSE IF ~parsed.ok
           THEN HandlerEnds("raised_parse", heap)
           ELSE IF parsed.msgs = <<>>
           THEN HandlerEnds("returned", heap)
           ELSE LET n == Len(parsed.msgs)
                    ids == NewIds(heap, n)
                IN  \E torder \in Perms({parsed.msgs[i].type_id : i \in 1..n}),
                       sorder \in Perms({parsed.msgs[i].id : i \in 1..n}) :
                      /\ heap' = heap @@ [o \in SeqToSet(ids) |->
                                   NewAlarm(parsed.msgs[CHOOSE i \in 1..n : ids[i] = o])]
                      /\ alarm_msgs' = ids
                      /\ groups' = GroupSeq(parsed.msgs, torder, sorder)
                      /\ sel_idx' = 1
                      /\ old_alarm' = 0
                      /\ hpc' = "merge"
                      /\ run' = "handler"
                      /\ UNCHANGED hres

\* control is back with the caller (the bus client): the locals are gone
_on_alarm_updated_exit ==
    /\ device' = "none"
    /\ run = "handler"
    /\ hpc = "done"
    /\ hpc' = "idle"
    /\ hres' = "none"
    /\ run' = "none"
    /\ alarm_msgs' = <<>>
    /\ groups' = <<>>
    /\ sel_idx' = 0
    /\ old_alarm' = 0
    /\ msg' = NoMsg
    /\ hlog' = <<>>
    /\ heap' = Collect(heap, _active_sensors, <<>>, 0, to_remove)
    /\ UNCHANGED <<others, _sensors, _sensor_types, _active_sensors, tpc, to_remove, tcall,
                   lastCmd, deliveries>>

\* line 230 (stop) or 239 (send): the call through _stop_command/_send_command
\* when the lookup found a module; `after` is where the handler goes on
HandlerCall(op, sid, protocol, ids, old, after) ==
    LET values == [i \in 1..Len(ids) |-> heap[ids[i]].alarm_value]
        entry == [op |-> op, sensor_id |-> sid, group |-> Head(groups),
                  protocol |-> protocol,
                  alarms |-> Views(heap, ids), values |-> values,
                  active |-> Views(heap, Get(_active_sensors, sid)),
                  done |-> FALSE]
    IN  /\ Issue(op, sid)
        /\ IF Suspends(protocol, values)
           THEN /\ hlog' = Append(hlog, entry)
                /\ hpc' = IF op = "stop" THEN "stop_wait" ELSE "send_wait"
                /\ run' = "none"
                /\ old_alarm' = old
                /\ UNCHANGED <<heap, alarm_msgs, groups, sel_idx, hres,
                               _active_sensors>>
           ELSE IF (IF op = "stop" THEN DriverStop(protocol, values[1], "ok")
                    ELSE DriverSend(protocol, values, "ok")) = "returned"
           THEN /\ hlog' = Append(hlog, [entry EXCEPT !.done = TRUE])
                /\ after
           ELSE /\ hlog' = Append(hlog, entry)
                /\ UNCHANGED _active_sensors
                /\ HandlerEnds("raised_driver", heap)

\* lines 213-236, one alarm of selected, up to the await of line 230
_on_alarm_updated_merge ==
    /\ device' = "none"
    /\ run = "handler"
    /\ hpc = "merge"
    /\ UNCHANGED <<others, _sensors, _sensor_types, tpc, to_remove, tcall, deliveries, msg>>
    /\ LET sid == Head(groups)[1]
           alarm == Selected(heap, alarm_msgs, Head(groups))[sel_idx]
           alarms == Get(_active_sensors, sid)
           old == OldAlarm(heap, alarms, alarm)
       IN  IF old = 0
           THEN /\ _active_sensors' = Put(_active_sensors, sid, Append(alarms, alarm))
                /\ NextAlarm
                /\ UNCHANGED <<heap, alarm_msgs, groups, hres, hlog, lastCmd>>
           ELSE IF heap[old].alarm_value # heap[alarm].alarm_value
           THEN IF ModuleFor(sid) = NotFound
                THEN /\ hpc' = "update"
                     /\ old_alarm' = old
                     /\ UNCHANGED <<heap, alarm_msgs, groups, sel_idx, hres, run,
                                    hlog, lastCmd, _active_sensors>>
                ELSE HandlerCall("stop", sid, ModuleFor(sid), <<old>>, old,
                         /\ hpc' = "update"
                         /\ old_alarm' = old
                         /\ UNCHANGED <<heap, alarm_msgs, groups, sel_idx, hres, run,
                                        _active_sensors>>)
           ELSE /\ heap' = [heap EXCEPT ![old] = UpdateAlarm(heap[old], heap[alarm])]
                /\ NextAlarm
                /\ UNCHANGED <<_active_sensors, alarm_msgs, groups, hres, hlog,
                               lastCmd>>

\* line 230 returns: the driver's stop has come back
_on_alarm_updated_stop_return ==
    /\ run = "none"
    /\ hpc = "stop_wait"
    /\ UNCHANGED <<others, _sensors, _sensor_types, _active_sensors, tpc, to_remove, tcall,
                   lastCmd, deliveries, msg>>
    /\ \E outcome \in Outcomes :
         /\ device' = Seen(outcome)
         /\ LET call == hlog[Len(hlog)]
            IN  IF DriverStop(call.protocol, call.values[1], outcome) = "returned"
                THEN /\ hlog' = MarkDone(hlog)
                     /\ hpc' = "update"
                     /\ run' = "handler"
                     /\ UNCHANGED <<heap, alarm_msgs, groups, sel_idx, old_alarm, hres>>
                ELSE /\ UNCHANGED hlog
                     /\ HandlerEnds("raised_driver", heap)

\* lines 233-236 after the stop of a changed value
_on_alarm_updated_update ==
    /\ device' = "none"
    /\ run = "handler"
    /\ hpc = "update"
    /\ UNCHANGED <<others, _sensors, _sensor_types, _active_sensors, tpc, to_remove, tcall,
                   hlog, lastCmd, deliveries, alarm_msgs, groups, hres, msg>>
    /\ LET alarm == Selected(heap, alarm_msgs, Head(groups))[sel_idx]
       IN  heap' = [heap EXCEPT ![old_alarm] = UpdateAlarm(heap[old_alarm], heap[alarm])]
    /\ NextAlarm

\* line 239: _send_command(sensor_id, selected)
_on_alarm_updated_send ==
    /\ device' = "none"
    /\ run = "handler"
    /\ hpc = "send"
    /\ UNCHANGED <<others, _sensors, _sensor_types, tpc, to_remove, tcall,
                   deliveries, msg>>
    /\ LET sid == Head(groups)[1]
       IN  IF ModuleFor(sid) = NotFound
           THEN /\ NextGroup
                /\ UNCHANGED <<hlog, lastCmd>>
           ELSE HandlerCall("send", sid, ModuleFor(sid),
                            Selected(heap, alarm_msgs, Head(groups)), 0, NextGroup)

\* line 239 returns
_on_alarm_updated_send_return ==
    /\ run = "none"
    /\ hpc = "send_wait"
    /\ UNCHANGED <<others, _sensors, _sensor_types, tpc, to_remove, tcall,
                   lastCmd, deliveries, msg>>
    /\ \E outcome \in Outcomes :
         /\ device' = Seen(outcome)
         /\ LET call == hlog[Len(hlog)]
            IN  IF DriverSend(call.protocol, call.values, outcome) = "returned"
                THEN /\ hlog' = MarkDone(hlog)
                     /\ NextGroup
                ELSE /\ UNCHANGED <<hlog, _active_sensors>>
                     /\ HandlerEnds("raised_driver", heap)

---------------------------------------------------------------------------
(* AlarmService._timer_loop *)

\* lines 158-162: every active alarm loses INTERVAL_MS; the expired ones are
\* collected in dict order, then list order
Decremented(h, d) ==
    [o \in DOMAIN h |->
        IF o \in ActiveIds(d)
        THEN [h[o] EXCEPT !.duration = @ - INTERVAL_MS, !.ticks = @ + 1]
        ELSE h[o]]

Expired(h, d) ==
    Flatten([i \in 1..Len(d) |->
        LET pairs == [j \in 1..Len(d[i].alarms) |-> <<d[i].sensor_id, d[i].alarms[j]>>]
        IN  SelectSeq(pairs, LAMBDA p : h[p[2]].duration <= 0)])

\* lines 166-167: `alarm in list` and list.remove(alarm) go by ==, and take
\* the first equal element
EqualAt(h, alarms, a) == { i \in 1..Len(alarms) : AlarmEq(h[alarms[i]], h[a]) }

RemoveFirst(h, alarms, a) ==
    LET k == CHOOSE i \in EqualAt(h, alarms, a) : \A j \in EqualAt(h, alarms, a) : i <= j
    IN  [i \in 1..(Len(alarms) - 1) |-> IF i < k THEN alarms[i] ELSE alarms[i + 1]]

\* line 152, `while not self._stop_event.is_set()`: the tick is over and the
\* loop sleeps again, or ends
AfterTick == IF _stop_event THEN "exited" ELSE "sleep"

\* the for loop over to_remove moves on, or the tick is over
NextRemoval ==
    /\ to_remove' = Tail(to_remove)
    /\ tcall' = NoCall
    /\ IF Len(to_remove) = 1
       THEN tpc' = AfterTick /\ run' = "none"
       ELSE tpc' = "remove" /\ run' = "timer"
    /\ heap' = Collect(heap, _active_sensors', alarm_msgs, old_alarm, Tail(to_remove))

\* lines 153-162: the sleep ends and the durations are decremented
_timer_loop ==
    /\ device' = "none"
    /\ run = "none"
    /\ tpc = "sleep"
    /\ _active_sensors # <<>> \/ _stop_event
    /\ heap' = Decremented(heap, _active_sensors)
    /\ to_remove' = Expired(heap', _active_sensors)
    /\ IF to_remove' = <<>>
       THEN tpc' = AfterTick /\ UNCHANGED run
       ELSE tpc' = "remove" /\ run' = "timer"
    /\ UNCHANGED <<others, _sensors, _sensor_types, _active_sensors, hpc, msg, alarm_msgs,
                   groups, sel_idx, old_alarm, hres, hlog, tcall, lastCmd, deliveries>>

\* line 175 takes the sensor's list out of the dict: an item of stop()'s
\* loop that holds this list holds a list nothing is added to any more
Detached(items, sid) ==
    [i \in 1..Len(items) |->
        IF items[i].sensor_id = sid THEN [items[i] EXCEPT !.live = FALSE] ELSE items[i]]

\* a timer that stops the sensor after every removal
EmptiedAlways(d, sid) == TRUE

\* line 174: `if not self._active_sensors[sensor_id]`
Emptied(d, sid) == Get(d, sid) = <<>>

\* lines 165-176, one element of to_remove, up to the await of line 176
_timer_loop_remove ==
    /\ device' = "none"
    /\ run = "timer"
    /\ tpc = "remove"
    /\ UNCHANGED <<cachev, driversv, spc, stop_list, scall, _stop_event, sbegin,
                   _sensors, _sensor_types, hpc, msg, alarm_msgs, groups, sel_idx,
                   old_alarm, hres, hlog, deliveries>>
    /\ LET sid == Head(to_remove)[1]
           alarm == Head(to_remove)[2]
           alarms == Get(_active_sensors, sid)
           removed == IF EqualAt(heap, alarms, alarm) # {}
                      THEN Put(_active_sensors, sid, RemoveFirst(heap, alarms, alarm))
                      ELSE _active_sensors
       IN  IF ~Emptied(removed, sid)
           THEN /\ _active_sensors' = removed
                /\ NextRemoval
                /\ UNCHANGED <<lastCmd, stop_items, sstops>>
           ELSE /\ _active_sensors' = Pop(removed, sid)
                /\ stop_items' = Detached(stop_items, sid)
                /\ sstops' = IF spc \in {"stops", "stop_wait"} /\ ModuleFor(sid) # NotFound
                             THEN sstops \cup {sid} ELSE sstops
                /\ IF ModuleFor(sid) = NotFound
                   THEN /\ NextRemoval
                        /\ UNCHANGED <<lastCmd>>
                   ELSE /\ Issue("stop", sid)
                        /\ IF Suspends(ModuleFor(sid), <<heap[alarm].alarm_value>>)
                           THEN /\ tcall' = [protocol |-> ModuleFor(sid),
                                             values |-> <<heap[alarm].alarm_value>>]
                                /\ tpc' = "stop_wait"
                                /\ run' = "none"
                                /\ UNCHANGED <<heap, to_remove>>
                           ELSE IF DriverStop(ModuleFor(sid), heap[alarm].alarm_value,
                                              "ok") = "returned"
                           THEN NextRemoval
                           ELSE /\ tpc' = "dead"
                                /\ run' = "none"
                                /\ UNCHANGED <<heap, to_remove, tcall>>

\* line 176 returns
_timer_loop_stop_return ==
    /\ run = "none"
    /\ tpc = "stop_wait"
    /\ UNCHANGED <<others, _sensors, _sensor_types, _active_sensors, hpc, msg, alarm_msgs,
                   groups, sel_idx, old_alarm, hres, hlog, lastCmd, deliveries>>
    /\ \E outcome \in Outcomes :
         /\ device' = Seen(outcome)
         /\ IF DriverStop(tcall.protocol, tcall.values[1], outcome) = "returned"
            THEN NextRemoval
            ELSE /\ tpc' = "dead"
                 /\ run' = "none"
                 /\ UNCHANGED <<heap, to_remove, tcall>>

---------------------------------------------------------------------------

Next ==
    \/ \E payload \in Payloads : _on_alarm_updated(payload)
    \/ _on_alarm_updated_merge
    \/ _on_alarm_updated_stop_return
    \/ _on_alarm_updated_update
    \/ _on_alarm_updated_send
    \/ _on_alarm_updated_send_return
    \/ _on_alarm_updated_exit
    \/ _timer_loop
    \/ _timer_loop_remove
    \/ _timer_loop_stop_return

Spec == Init /\ [][Next]_vars

---------------------------------------------------------------------------
(* Claims *)

KeyOf(o) == <<o.alarm_type, o.type_id>>

UniqueKeys(h, d) ==
    \A i \in 1..Len(d) : \A j, k \in 1..Len(d[i].alarms) :
        KeyOf(h[d[i].alarms[j]]) = KeyOf(h[d[i].alarms[k]]) => j = k

\* the handler is about to merge a message into an entry of the same value
MergesSameValue ==
    /\ run = "handler"
    /\ hpc = "merge"
    /\ LET alarm == Selected(heap, alarm_msgs, Head(groups))[sel_idx]
           old == OldAlarm(heap, Get(_active_sensors, Head(groups)[1]), alarm)
       IN  old # 0 /\ heap[old].alarm_value = heap[alarm].alarm_value

\* C1: merge-not-duplicate.  After every step a sensor's active list holds at
\* most one entry per (alarm category, type id); and the step that merges a
\* message into an entry of the same sensor, type, category and value leaves
\* the list as long as it was and gives the entry the message's duration,
\* which is the wire duration in milliseconds.
C1_MergeNotDuplicate ==
    [][ /\ UniqueKeys(heap', _active_sensors')
        /\ MergesSameValue =>
             LET sid == Head(groups)[1]
                 alarm == Selected(heap, alarm_msgs, Head(groups))[sel_idx]
                 old == OldAlarm(heap, Get(_active_sensors, sid), alarm)
             IN  /\ _active_sensors' = _active_sensors
                 /\ heap'[old].duration = heap[alarm].duration
                 /\ heap[alarm].duration = heap[alarm].ingested
                 /\ heap[alarm].ingested \in {1000, 2000} ]_vars

\* a message was merged into an entry ingested earlier, which took its
\* (different) duration, and no stop was issued
C1_Witness ==
    /\ hpc = "send"
    /\ hlog = <<>>
    /\ deliveries = 2
    /\ Len(alarm_msgs) = 1
    /\ \E m \in SeqToSet(alarm_msgs) : \E o \in SeqToSet(Get(_active_sensors, heap[m].id)) :
         /\ m \notin ActiveIds(_active_sensors)
         /\ KeyOf(heap[o]) = KeyOf(heap[m])
         /\ heap[o].alarm_value = heap[m].alarm_value
         /\ heap[o].duration = 2000
         /\ heap[o].ticks = 0
         /\ heap[m].duration = 2000

HasModule(sid) == ModuleFor(sid) # NotFound

\* the handler is about to merge a message into an entry of another value
MergesChangedValue ==
    /\ run = "handler"
    /\ hpc = "merge"
    /\ LET alarm == Selected(heap, alarm_msgs, Head(groups))[sel_idx]
           old == OldAlarm(heap, Get(_active_sensors, Head(groups)[1]), alarm)
       IN  old # 0 /\ heap[old].alarm_value # heap[alarm].alarm_value

\* the handler issues a driver call in this step
IssuesCall == Len(hlog') = Len(hlog) + 1

\* C2: clear-on-value-change, for a sensor whose driver is found.  The step
\* that meets an entry of another value issues exactly one stop, carrying the
\* old value; the entry is overwritten only when that stop has completed and
\* then the sensor's list holds exactly one entry of that category and type
\* id, with the new value; a send is issued only when every earlier call of
\* the handler has completed.
C2_ClearOnValueChange ==
    [][ LET sid == Head(groups)[1]
            alarm == Selected(heap, alarm_msgs, Head(groups))[sel_idx]
            old == OldAlarm(heap, Get(_active_sensors, sid), alarm)
        IN  /\ (MergesChangedValue /\ HasModule(sid)) =>
                  /\ IssuesCall
                  /\ hlog'[Len(hlog')].op = "stop"
                  /\ hlog'[Len(hlog')].sensor_id = sid
                  /\ hlog'[Len(hlog')].alarms = <<View(heap[old])>>
            /\ (run = "handler" /\ hpc = "update" /\ HasModule(sid)) =>
                  /\ hlog # <<>>
                  /\ hlog[Len(hlog)].op = "stop" /\ hlog[Len(hlog)].done
                  /\ LET now == Get(_active_sensors', sid)
                     IN  /\ Cardinality(Matches(heap', now, alarm)) = 1
                         /\ \A k \in Matches(heap', now, alarm) :
                              heap'[now[k]].alarm_value = heap[alarm].alarm_value
            /\ (IssuesCall /\ hlog'[Len(hlog')].op = "send") =>
                  \A k \in 1..Len(hlog) : hlog[k].done ]_vars

\* the objects a step takes out of the active lists
Removed == ActiveIds(_active_sensors) \ ActiveIds(_active_sensors')

\* C3: countdown expiry.  An entry leaves the active set exactly at the tick
\* at which INTERVAL_MS times the ticks since its (last) ingestion reaches
\* its ingested duration: not before and, the tick over, not after; when the
\* removal empties the list of a sensor whose driver is found the stop is
\* issued in that step, and the timer issues no stop in any other step.
C3_CountdownExpiry ==
    [][ /\ \A o \in Removed : heap[o].ticks * INTERVAL_MS = heap[o].ingested
        /\ tpc' = "sleep" =>
             \A o \in ActiveIds(_active_sensors') :
                heap'[o].ticks * INTERVAL_MS < heap'[o].ingested
        /\ \A sid \in SensorIds :
             (Removed # {} /\ HasModule(sid) /\ Get(_active_sensors, sid) # <<>>
                 /\ Get(_active_sensors', sid) = <<>>) => lastCmd'[sid] = "stop"
        /\ (run = "timer" /\ lastCmd' # lastCmd) => Removed # {} ]_vars

\* C4: every send carries all the active alarms of the sensor that have the
\* group's type id.
C4_SendCarriesActiveList ==
    \A k \in 1..Len(hlog) :
        hlog[k].op = "send" =>
            SeqToSet(hlog[k].alarms) =
                { v \in SeqToSet(hlog[k].active) : v.type_id = hlog[k].group[2] }

\* the group at the send consists of messages merged into entries of the same value
UnchangedGroup ==
    /\ run = "handler"
    /\ hpc = "send"
    /\ \A m \in SeqToSet(Selected(heap, alarm_msgs, Head(groups))) :
         m \notin ActiveIds(_active_sensors)
    /\ \A k \in 1..Len(hlog) : hlog[k].group # Head(groups)

Quiescent == run = "none" /\ hpc = "idle" /\ tpc = "sleep"

\* C6: per-sensor lifecycle.  Whenever handler and timer are both at rest, a
\* sensor whose driver is found and whose last device command was a send has
\* an entry in the active set left to count it down (and so to stop it).
C6_SendLeavesEntry ==
    \A sid \in SensorIds :
        (Quiescent /\ HasModule(sid) /\ lastCmd[sid] = "send") =>
            Get(_active_sensors, sid) # <<>>

\* C7: update and expiry never interleave inconsistently.  Every message a
\* send carries, unless a later message of the same batch superseded it, has
\* when the send is issued an entry of the same category, type id and value
\* in the sensor's active list.
C7_SentMessagesHaveEntries ==
    \A k \in 1..Len(hlog) :
        hlog[k].op = "send" =>
            \A i \in 1..Len(hlog[k].alarms) :
                (\A j \in (i + 1)..Len(hlog[k].alarms) :
                    hlog[k].alarms[j].alarm_type # hlog[k].alarms[i].alarm_type)
                => hlog[k].alarms[i] \in SeqToSet(hlog[k].active)

\* C8: driver failure isolation.  Whatever the device does with a request
\* and whatever the alarm value, numeric or not, no call of the handler ends
\* by a driver's exception and the timer loop never dies of one.
C8_DriverFailureIsolation ==
    /\ hres # "raised_driver"
    /\ tpc # "dead"

\* a send to a device that failed has returned and the handler is at the next
\* group of the batch
C8_Witness ==
    /\ device = "failed"
    /\ run = "handler"
    /\ hpc = "merge"
    /\ hres = "none"
    /\ hlog # <<>>
    /\ hlog[Len(hlog)].op = "send"
    /\ hlog[Len(hlog)].done

\* the payload is one the handler is meant to drop
Malformed(payload) ==
    \/ payload.kind \in {"invalid", "nonarray"}
    \/ /\ payload.kind = "array"
       /\ \E i \in 1..Len(payload.items) :
            /\ payload.items[i].isdict
            /\ \/ payload.items[i].duration \notin NumberTokens \cup {"null"}
               \/ payload.items[i].regenInterval \notin NumberTokens \cup {"null"}
               \/ payload.items[i].priority \notin NumberTokens \cup {"null"}

\* C9: malformed input is dropped locally.  The delivery of a payload that is
\* not valid JSON, not an array, or holds an object with a non-numeric
\* duration, regenInterval or priority ends the handler by a return, leaves
\* the active set as it was and makes no driver call.
C9_MalformedInputDropped ==
    [][ (hpc = "idle" /\ msg' # msg /\ Malformed(msg')) =>
            /\ hpc' = "done"
            /\ hres' = "returned"
            /\ _active_sensors' = _active_sensors
            /\ hlog' = <<>>
            /\ lastCmd' = lastCmd ]_vars

\* C10: configuration errors are a no-op.  A sensor id that is not in the
\* cache, or whose type id has no protocol name (or no module), never gets a
\* driver call, never makes the handler raise, and never has an entry in the
\* active set.
C10_ConfigErrorsNoOp ==
    \A sid \in SensorIds :
        ~HasModule(sid) =>
            /\ lastCmd[sid] = "none"
            /\ \A k \in 1..Len(hlog) : hlog[k].sensor_id # sid
            /\ Get(_active_sensors, sid) = <<>>

---------------------------------------------------------------------------
(* AlarmService.reload_cache / _load_sensor_cache and the configuration store *)

\* the store's content along a sequence of edits through the sensors API: a
\* sensor type is created, then the sensor is moved to it
ConfigA == [sensors |-> ("S1" :> "T1"), types |-> ("T1" :> "LA6_POE")]

ConfigA2 == [sensors |-> ("S1" :> "T1"),
             types |-> ("T1" :> "LA6_POE") @@ ("T7" :> "IoLogik_E1211")]

ConfigB == [sensors |-> ("S1" :> "T7"),
            types |-> ("T1" :> "LA6_POE") @@ ("T7" :> "IoLogik_E1211")]

Configs == {ConfigA, ConfigA2, ConfigB}

\* each edit changes one table
Edits == { <<ConfigA, ConfigA2>>, <<ConfigA2, ConfigB>> }

\* an API request commits its edit (api/v2/sensors.py: await db.commit())
commit(cfg) ==
    /\ run = "none"
    /\ <<db, cfg>> \in Edits
    /\ db' = cfg
    /\ device' = "none"
    /\ UNCHANGED <<_sensors, _sensor_types, _active_sensors, heap, run, hpc, msg,
                   alarm_msgs, groups, sel_idx, old_alarm, hres, tpc, to_remove,
                   hlog, tcall, lastCmd, deliveries, rpc, pre, shutdownv, driversv>>

\* reload_cache is called and suspends in the query for the sensors
reload_cache ==
    /\ run = "none"
    /\ rpc = "idle"
    /\ rpc' = "sensors_wait"
    /\ pre' = [sensors |-> _sensors, types |-> _sensor_types]
    /\ device' = "none"
    /\ UNCHANGED <<_sensors, _sensor_types, _active_sensors, heap, run, hpc, msg,
                   alarm_msgs, groups, sel_idx, old_alarm, hres, tpc, to_remove,
                   hlog, tcall, lastCmd, deliveries, db, shutdownv, driversv>>

\* a reload that also forgets the active alarms
_load_sensor_cache_types_clearing ==
    /\ run = "none"
    /\ rpc = "types_wait"
    /\ _sensor_types' = db.types
    /\ _active_sensors' = <<>>
    /\ rpc' = "idle"
    /\ device' = "none"
    /\ UNCHANGED <<_sensors, heap, run, hpc, msg, alarm_msgs,
                   groups, sel_idx, old_alarm, hres, tpc, to_remove, hlog, tcall,
                   lastCmd, deliveries, db, pre, shutdownv, driversv>>

\* lines 116-133: the sensors have been read; self._sensors is assigned and
\* the query for the sensor types is awaited
_load_sensor_cache_sensors ==
    /\ run = "none"
    /\ rpc = "sensors_wait"
    /\ _sensors' = db.sensors
    /\ rpc' = "types_wait"
    /\ device' = "none"
    /\ UNCHANGED <<_sensor_types, _active_sensors, heap, run, hpc, msg, alarm_msgs,
                   groups, sel_idx, old_alarm, hres, tpc, to_remove, hlog, tcall,
                   lastCmd, deliveries, db, pre, shutdownv, driversv>>

\* lines 135-142: the sensor types have been read; self._sensor_types is
\* assigned and the reload returns
_load_sensor_cache_types ==
    /\ run = "none"
    /\ rpc = "types_wait"
    /\ _sensor_types' = db.types
    /\ rpc' = "idle"
    /\ device' = "none"
    /\ UNCHANGED <<_sensors, _active_sensors, heap, run, hpc, msg, alarm_msgs,
                   groups, sel_idx, old_alarm, hres, tpc, to_remove, hlog, tcall,
                   lastCmd, deliveries, db, pre, shutdownv, driversv>>

\* the bus messages explored while the cache is reloaded
ReloadPayloads ==
    { [kind |-> "array",
       items |-> <<WireItem("S1", "T1", "LED", v, Timing("1", "0", "0"))>>] :
         v \in {"RED", "YELLOW"} }

InitReload ==
    /\ _sensors = ConfigA.sensors
    /\ _sensor_types = ConfigA.types
    /\ InitService
    /\ InitCache
    /\ InitShutdown
    /\ InitDrivers

NextReload ==
    \/ \E payload \in ReloadPayloads : _on_alarm_updated(payload)
    \/ _on_alarm_updated_merge
    \/ _on_alarm_updated_stop_return
    \/ _on_alarm_updated_update
    \/ _on_alarm_updated_send
    \/ _on_alarm_updated_send_return
    \/ _on_alarm_updated_exit
    \/ _timer_loop
    \/ _timer_loop_remove
    \/ _timer_loop_stop_return
    \/ \E cfg \in Configs : commit(cfg)
    \/ reload_cache
    \/ _load_sensor_cache_sensors
    \/ _load_sensor_cache_types

SpecReload == InitReload /\ [][NextReload]_vars

\* the sensor ids this step looks up through _get_sensor_and_type: the
\* handler's send, its stop of a changed value, the timer's stop of a sensor
\* whose list the removal emptied
LookedUp ==
    IF run = "handler" /\ hpc = "send" THEN {Head(groups)[1]}
    ELSE IF MergesChangedValue THEN {Head(groups)[1]}
    ELSE IF run = "timer" /\ tpc = "remove"
               /\ Head(to_remove)[1] \notin Keys(_active_sensors')
         THEN {Head(to_remove)[1]}
    ELSE {}

\* C11: cache reload is atomic over both mappings.  A lookup made by the
\* handler or the timer while a reload is in progress gives what the two
\* mappings gave when the reload began or what the store's two tables give.
C11_ReloadAtomic ==
    [][ \A sid \in LookedUp :
          rpc # "idle" =>
             ModuleFor(sid) \in { ModuleIn(pre.sensors, pre.types, sid),
                                  ModuleIn(db.sensors, db.types, sid) } ]_vars

\* C12: a reload changes only the two mappings.  Every step of the reload
\* leaves the active set, its alarm objects (values and remaining durations)
\* and the record of driver calls as they were.
C12_ReloadFrame ==
    [][ (rpc' # rpc \/ _sensors' # _sensors \/ _sensor_types' # _sensor_types) =>
            UNCHANGED <<_active_sensors, heap, lastCmd, hlog, tcall, to_remove,
                        alarm_msgs, old_alarm>> ]_vars

\* a reload that replaced the sensor mapping has returned while an alarm was
\* counting down
C12_Witness ==
    /\ rpc = "idle"
    /\ _sensors # pre.sensors
    /\ _sensor_types = db.types
    /\ _active_sensors # <<>>
    /\ \E o \in ActiveIds(_active_sensors) : heap[o].ticks = 1

---------------------------------------------------------------------------
(* AlarmService.stop *)

\* lines 86-88 begin: list(self._active_sensors.items())
stop ==
    /\ run = "none"
    /\ spc = "idle"
    /\ spc' = "stops"
    /\ run' = "shutdown"
    /\ stop_items' = [i \in 1..Len(_active_sensors) |->
                        [sensor_id |-> _active_sensors[i].sensor_id, live |-> TRUE]]
    /\ stop_list' = <<>>
    /\ sbegin' = { sid \in Keys(_active_sensors) : ModuleFor(sid) # NotFound }
    /\ sstops' = {}
    /\ device' = "none"
    /\ UNCHANGED <<driversv, cachev, scall, _stop_event, _sensors, _sensor_types,
                   _active_sensors, heap, hpc, msg, alarm_msgs, groups, sel_idx,
                   old_alarm, hres, tpc, to_remove, hlog, tcall, lastCmd, deliveries>>

\* lines 86-102 between two awaits: the next alarm of the inner loop is
\* stopped, or the next sensor's list is copied, or the loops are over and
\* the set is cleared, the speaker module cleaned up (it has its own
\* specification), the stop event set and the bus connection drained
stop_next ==
    /\ run = "shutdown"
    /\ spc = "stops"
    /\ device' = "none"
    /\ UNCHANGED <<driversv, cachev, sbegin, _sensors, _sensor_types, hpc, msg, alarm_msgs,
                   groups, sel_idx, old_alarm, hres, tpc, to_remove, hlog, tcall,
                   deliveries>>
    /\ IF stop_list # <<>>
       THEN LET sid == Head(stop_list)[1]
                value == heap[Head(stop_list)[2]].alarm_value
            IN  /\ stop_list' = Tail(stop_list)
                /\ UNCHANGED <<stop_items, _active_sensors, heap, _stop_event>>
                /\ IF ModuleFor(sid) = NotFound
                   THEN UNCHANGED <<spc, run, scall, sstops, lastCmd>>
                   ELSE /\ Issue("stop", sid)
                        /\ sstops' = sstops \cup {sid}
                        /\ IF Suspends(ModuleFor(sid), <<value>>)
                           THEN /\ scall' = [protocol |-> ModuleFor(sid),
                                             values |-> <<value>>]
                                /\ spc' = "stop_wait"
                                /\ run' = "none"
                           ELSE IF DriverStop(ModuleFor(sid), value, "ok") = "returned"
                           THEN UNCHANGED <<spc, run, scall>>
                           ELSE /\ spc' = "raised"
                                /\ run' = "none"
                                /\ UNCHANGED scall
       ELSE IF stop_items # <<>>
       THEN LET sid == Head(stop_items).sensor_id
                alarms == IF Head(stop_items).live THEN Get(_active_sensors, sid)
                          ELSE <<>>
            IN  /\ stop_list' = [i \in 1..Len(alarms) |-> <<sid, alarms[i]>>]
                /\ stop_items' = Tail(stop_items)
                /\ UNCHANGED <<spc, run, scall, sstops, lastCmd, _active_sensors, heap,
                               _stop_event>>
       ELSE /\ _active_sensors' = <<>>
            /\ heap' = Collect(heap, <<>>, alarm_msgs, old_alarm, to_remove)
            /\ _stop_event' = TRUE
            /\ spc' = "drain_wait"
            /\ run' = "none"
            /\ UNCHANGED <<stop_items, stop_list, scall, sstops, lastCmd>>

\* line 88 returns: the driver's stop has come back
stop_stop_return ==
    /\ run = "none"
    /\ spc = "stop_wait"
    /\ scall' = NoCall
    /\ UNCHANGED <<driversv, cachev, stop_items, stop_list, _stop_event, sbegin, sstops,
                   _sensors, _sensor_types, _active_sensors, heap, hpc, msg,
                   alarm_msgs, groups, sel_idx, old_alarm, hres, tpc, to_remove,
                   hlog, tcall, lastCmd, deliveries>>
    /\ \E outcome \in Outcomes :
         /\ device' = Seen(outcome)
         /\ IF DriverStop(scall.protocol, scall.values[1], outcome) = "returned"
            THEN spc' = "stops" /\ run' = "shutdown"
            ELSE spc' = "raised" /\ run' = "none"

\* lines 100-102: the drain is over, which waits for the callbacks of the
\* messages already received; stop() returns
stop_drain_return ==
    /\ run = "none"
    /\ spc = "drain_wait"
    /\ hpc = "idle"
    /\ spc' = "returned"
    /\ device' = "none"
    /\ UNCHANGED <<driversv, cachev, stop_items, stop_list, scall, _stop_event, sbegin, sstops,
                   _sensors, _sensor_types, _active_sensors, heap, run, hpc, msg,
                   alarm_msgs, groups, sel_idx, old_alarm, hres, tpc, to_remove,
                   hlog, tcall, lastCmd, deliveries>>

\* the bus messages explored around a shutdown
StopPayloads ==
    { [kind |-> "array",
       items |-> <<WireItem("S1", "T1", "LED", v, Timing("1", "0", "0"))>>] :
         v \in {"RED", "YELLOW"} }
    \cup { [kind |-> "array",
            items |-> <<WireItem("S2", "T1", "LED", "1", Timing("1", "0", "0"))>>] }

\* the bus delivers a message: until the drain is over the subscription's
\* callback still runs
deliver(payload) ==
    /\ spc \notin {"returned", "raised"}
    /\ _on_alarm_updated(payload)

InitStop ==
    /\ _sensors = ("S1" :> "T1") @@ ("S2" :> "T2")
    /\ _sensor_types = TypeNames
    /\ InitService
    /\ InitCache
    /\ InitShutdown
    /\ InitDrivers

NextStop ==
    \/ \E payload \in StopPayloads : deliver(payload)
    \/ _on_alarm_updated_merge
    \/ _on_alarm_updated_stop_return
    \/ _on_alarm_updated_update
    \/ _on_alarm_updated_send
    \/ _on_alarm_updated_send_return
    \/ _on_alarm_updated_exit
    \/ _timer_loop
    \/ _timer_loop_remove
    \/ _timer_loop_stop_return
    \/ stop
    \/ stop_next
    \/ stop_stop_return
    \/ stop_drain_return

SpecStop == InitStop /\ [][NextStop]_vars

\* C13: shutdown.  When stop() has returned, a driver stop has been issued
\* for every sensor with a driver that was active when stop() began, and the
\* active set is empty.
C13_ShutdownLeavesNothing ==
    spc = "returned" =>
        /\ sbegin \subseteq sstops
        /\ _active_sensors = <<>>

---------------------------------------------------------------------------
(* The scheduler of one speaker: an AlertManager under add_event,
   get_next_event and set_settings, with the clock passing in between. *)

ClockStep == 1000
MaxClock == 3000

VoicePorts == {"1", "2"}
Priorities == {1, 2}
Intervals == {0}
MaxTimes == {2, 120}

\* manager.add_event(alarm_value, priority, regen_interval) (send, line 253)
AddEvent(voice_port, priority, event_interval) ==
    /\ mgr' = add_event(mgr, clock, voice_port, priority, event_interval)
    /\ lowest' =
          IF CutOff(mgr, clock,
                    Detected(mgr, clock, voice_port, priority, event_interval))
          THEN lowest
          ELSE IF lowest = <<>> THEN <<priority>>
          ELSE IF priority < lowest[1] THEN <<priority>> ELSE lowest
    /\ UNCHANGED <<clock, appv, callv, speakerv>>

\* manager.get_next_event() (_speaker_task, line 166)
GetNextEvent ==
    /\ mgr' = get_next_event(mgr, clock).mgr
    /\ lowest' = <<>>
    /\ UNCHANGED <<clock, appv, callv, speakerv>>

\* manager.set_settings(sensor.max_time, sensor.pause_time) (send, line 248)
set_settings(max_time_second, pause_time_second) ==
    /\ mgr' = [mgr EXCEPT !.max_time_second = max_time_second,
                          !.pause_time_second = pause_time_second]
    /\ UNCHANGED <<clock, lowest, appv, callv, speakerv>>

\* time passes
Advance ==
    /\ clock < MaxClock
    /\ clock' = clock + ClockStep
    /\ UNCHANGED <<mgr, lowest, appv, callv, speakerv>>

InitScheduler ==
    /\ _sensors = ("S1" :> "T1")
    /\ _sensor_types = TypeNames
    /\ InitService
    /\ InitCache
    /\ InitShutdown
    /\ mgr \in { AlertManager(mt, 0) : mt \in MaxTimes }
    /\ clock = 0
    /\ lowest = <<>>
    /\ arg = <<>>
    /\ ret = <<>>
    /\ NoSpeakers

NextScheduler ==
    \/ \E vp \in VoicePorts, p \in Priorities, i \in Intervals : AddEvent(vp, p, i)
    \/ GetNextEvent
    \/ \E mt \in MaxTimes : set_settings(mt, 0)
    \/ Advance

SpecScheduler == InitScheduler /\ [][NextScheduler]_vars

\* when the port was last played (datetime.min if never)
LastPlayed(m, voice_port) ==
    IF voice_port \in DOMAIN m.alert_states
    THEN m.alert_states[voice_port].last_alert_time
    ELSE DatetimeMin

\* add_event at time t gets past the max-duration check of line 77
PastMaxTime(m, t, voice_port, priority, event_interval) ==
    ~CutOff(m, t, Detected(m, t, voice_port, priority, event_interval))

\* the next candidate is the event of the port
NextIs(m, voice_port) ==
    m.next_alert.is_set /\ m.next_alert.voice_port = voice_port

\* two offers of equal priority to the empty slot of the manager, first x
\* then y after d ms, none of them cut off by the max duration
BothOffered(x, y, p, ix, iy, d) ==
    /\ PastMaxTime(mgr, clock, x, p, ix)
    /\ PastMaxTime(add_event(mgr, clock, x, p, ix), clock + d, y, p, iy)

\* the manager after the two offers
AfterBoth(x, y, p, ix, iy, d) ==
    add_event(add_event(mgr, clock, x, p, ix), clock + d, y, p, iy)

\* C17 as stated: whenever the slot is empty and port a was last played
\* earlier than port b (never played counts as earliest), two add_event calls
\* of equal priority for a and b with no pop in between leave a as the next
\* candidate, whichever of the two calls came first.
C17_TieBreakAnyOffer ==
    ~mgr.next_alert.is_set =>
        \A a \in VoicePorts, b \in VoicePorts, p \in Priorities,
           ia \in Intervals, ib \in Intervals, d \in {0, ClockStep} :
            LastPlayed(mgr, a) < LastPlayed(mgr, b) =>
                /\ NextIs(AfterBoth(a, b, p, ia, ib, d), a)
                /\ NextIs(AfterBoth(b, a, p, ib, ia, d), a)

\* C17 amended: the same, for two add_event calls that both get past the
\* max-duration check: a is the next candidate in either order of the calls.
C17_TieBreakOldestPlayed ==
    ~mgr.next_alert.is_set =>
        \A a \in VoicePorts, b \in VoicePorts, p \in Priorities,
           ia \in Intervals, ib \in Intervals, d \in {0, ClockStep} :
            LastPlayed(mgr, a) < LastPlayed(mgr, b) =>
                /\ BothOffered(a, b, p, ia, ib, d) =>
                       NextIs(AfterBoth(a, b, p, ia, ib, d), a)
                /\ BothOffered(b, a, p, ib, ia, d) =>
                       NextIs(AfterBoth(b, a, p, ib, ia, d), a)

\* the slot is empty, both ports have been played, a before b, and both
\* orders of the two calls get past the max-duration check and leave a
C17_Witness ==
    /\ ~mgr.next_alert.is_set
    /\ \E a \in VoicePorts, b \in VoicePorts, p \in Priorities :
          /\ DatetimeMin < LastPlayed(mgr, a)
          /\ LastPlayed(mgr, a) < LastPlayed(mgr, b)
          /\ BothOffered(a, b, p, 0, 0, ClockStep)
          /\ BothOffered(b, a, p, 0, 0, ClockStep)
          /\ NextIs(AfterBoth(a, b, p, 0, 0, ClockStep), a)
          /\ NextIs(AfterBoth(b, a, p, 0, 0, ClockStep), a)

---------------------------------------------------------------------------
(* The time restriction of a sensor, asked at every minute of the day. *)

\* the window ends that are tried: midnight, the last minute, and times of
\* the morning, midday and evening
WindowEnds == {0, 360, 720, 1320, MinutesOfDay - 1}

\* arg is the sensor and the time of the call
RestrictionArgs ==
    [sensor : [is_time_restricted : BOOLEAN,
               time_restricted_start : WindowEnds,
               time_restricted_end : WindowEnds],
     current_minutes : {0}]

\* sensor.is_current_time_restricted() (aepel_speaker.py, line 225)
CheckRestriction ==
    /\ ret = <<>>
    /\ ret' = <<is_current_time_restricted(arg.sensor, arg.current_minutes)>>
    /\ UNCHANGED <<arg, mgr, clock, lowest, appv, speakerv>>

\* the next minute begins
MinutePasses ==
    /\ arg' = [arg EXCEPT !.current_minutes = (@ + 1) % MinutesOfDay]
    /\ ret' = <<>>
    /\ UNCHANGED <<mgr, clock, lowest, appv, speakerv>>

InitRestriction ==
    /\ _sensors = ("S1" :> "T1")
    /\ _sensor_types = TypeNames
    /\ InitService
    /\ InitCache
    /\ InitShutdown
    /\ mgr = NoManager
    /\ clock = 0
    /\ lowest = <<>>
    /\ arg \in RestrictionArgs
    /\ ret = <<>>
    /\ NoSpeakers

NextRestriction ==
    \/ CheckRestriction
    \/ MinutePasses

SpecRestriction == InitRestriction /\ [][NextRestriction]_vars

\* C18: time restriction.  The answer is false when the flag is off or start
\* equals end; for start < end it is true exactly when start <= current <=
\* end; for start > end (overnight) it is false exactly when end < current <
\* start; with start 1320 and end 360, minute 1380 is restricted and minute 420
\* is not.
C18_RestrictionWindow ==
    ret # <<>> =>
        LET start == arg.sensor.time_restricted_start
            end == arg.sensor.time_restricted_end
            cur == arg.current_minutes
        IN  /\ (~arg.sensor.is_time_restricted \/ start = end) => ret[1] = FALSE
            /\ (arg.sensor.is_time_restricted /\ start < end) =>
                   (ret[1] = TRUE <=> (start <= cur /\ cur <= end))
            /\ (arg.sensor.is_time_restricted /\ start > end) =>
                   (ret[1] = FALSE <=> (end < cur /\ cur < start))
            /\ (arg.sensor.is_time_restricted /\ start = 1320 /\ end = 360) =>
                   /\ cur = 1380 => ret[1] = TRUE
                   /\ cur = 420 => ret[1] = FALSE

\* the overnight window 22:00-06:00 asked at its first minute: restricted
C18_Witness ==
    /\ arg.sensor = [is_time_restricted |-> TRUE, time_restricted_start |-> 1320,
                     time_restricted_end |-> 360]
    /\ arg.current_minutes = 1320
    /\ ret = <<TRUE>>

---------------------------------------------------------------------------
(* The command array of the LED tower for the lists of alarms of a send. *)

MaxAlarms == 2

TowerTypes == {"LED", "led", "BUZZER"}

TowerValues == {"RED", "red", "YELLOW", "GREEN", "NONE", "OFF", "ON", "PATTERN",
                "PATTERN0", "PATTERN2", "PATTERN7"}

TowerAlarms == [alarm_type : TowerTypes, alarm_value : TowerValues]

\* the lists of at most MaxAlarms alarms
TowerLists == UNION { [1..n -> TowerAlarms] : n \in 0..MaxAlarms }

\* cmd_array = self._build_command_array(commands) (send, line 185)
BuildCommandArray ==
    /\ ret = <<>>
    /\ ret' = <<_build_command_array(arg)>>
    /\ UNCHANGED <<arg, mgr, clock, lowest, appv, speakerv>>

InitTower ==
    /\ _sensors = ("S1" :> "T1")
    /\ _sensor_types = TypeNames
    /\ InitService
    /\ InitCache
    /\ InitShutdown
    /\ mgr = NoManager
    /\ clock = 0
    /\ lowest = <<>>
    /\ arg \in TowerLists
    /\ ret = <<>>
    /\ NoSpeakers

NextTower == BuildCommandArray

SpecTower == InitTower /\ [][NextTower]_vars

\* the alarm is of that category and value, in upper case
Says(alarm, alarm_type, alarm_value) ==
    alarm.alarm_type = alarm_type /\ alarm.alarm_value = alarm_value

\* the list without its last alarm
ButLast(alarms) == SubSeq(alarms, 1, Len(alarms) - 1)

\* C19: the command array is a left fold over the default array in list
\* order, the last write of a field winning: the empty list gives the
\* default; [LED=RED, BUZZER=OFF] gives 1,1,1,1,1,0,0 and [BUZZER=OFF,
\* LED=RED] gives 1,1,1,1,1,0,1; a last BUZZER=OFF sets only the buzzer, to 0;
\* a last BUZZER=ON sets the buzzer to 1 only when it is 0 after the alarms
\* before it; a last BUZZER=PATTERNn sets only the buzzer, to n clamped to
\* 1..3; a last LED=RED or LED=YELLOW overwrites all seven fields.
C19_CommandArrayFold ==
    ret # <<>> =>
        LET cmd == ret[1]
            RED == [alarm_type |-> "LED", alarm_value |-> "RED"]
            OFF == [alarm_type |-> "BUZZER", alarm_value |-> "OFF"]
        IN  /\ arg = <<>> => cmd = <<"4", "4", "4", "4", "4", "0", "0">>
            /\ arg = <<RED, OFF>> => cmd = <<"1", "1", "1", "1", "1", "0", "0">>
            /\ arg = <<OFF, RED>> => cmd = <<"1", "1", "1", "1", "1", "0", "1">>
            /\ arg # <<>> =>
                  LET last == arg[Len(arg)]
                      before == _build_command_array(ButLast(arg))
                  IN  /\ Says(last, "BUZZER", "OFF") =>
                             cmd = [before EXCEPT ![7] = "0"]
                      /\ Says(last, "BUZZER", "ON") =>
                             cmd = [before EXCEPT ![7] = IF @ = "0" THEN "1" ELSE @]
                      /\ Says(last, "BUZZER", "PATTERN0") =>
                             cmd = [before EXCEPT ![7] = "1"]
                      /\ Says(last, "BUZZER", "PATTERN2") =>
                             cmd = [before EXCEPT ![7] = "2"]
                      /\ Says(last, "BUZZER", "PATTERN7") =>
                             cmd = [before EXCEPT ![7] = "3"]
                      /\ Says(last, "LED", "RED") =>
                             cmd = <<"1", "1", "1", "1", "1", "0", "1">>
                      /\ Says(last, "LED", "YELLOW") =>
                             cmd = <<"2", "2", "2", "2", "2", "0", "9">>

\* BUZZER=ON after LED=YELLOW: the pattern 9 stays
C19_Witness ==
    /\ arg = <<[alarm_type |-> "LED", alarm_value |-> "YELLOW"],
               [alarm_type |-> "BUZZER", alarm_value |-> "ON"]>>
    /\ ret = <<(<<"2", "2", "2", "2", "2", "0", "9">>)>>

---------------------------------------------------------------------------
(* app/alarms/aepel_speaker.py: AEPELSpeakerAlarm.  One AlertManager and one
   background task per endpoint, under send, stop with its eviction, cleanup
   and the steps of the tasks. *)

\* len(self._tasks) > 16 (stop)
MaxTasks == 16

\* the endpoints that are tracked and idle at the beginning
Idle == 16

MaxSends == 2

\* the dict without the key
Without(f, key) == [k \in DOMAIN f \ {key} |-> f[k]]

\* self._tasks.keys(), as a set and in insertion order
TaskKeys(tracked) == { tracked[i].key : i \in 1..Len(tracked) }

KeyList(tracked) == [i \in 1..Len(tracked) |-> tracked[i].key]

\* self._tasks.get(key): the number of the task, 0 for None
TaskOf(tracked, key) ==
    IF key \in TaskKeys(tracked)
    THEN tracked[CHOOSE i \in 1..Len(tracked) : tracked[i].key = key].task
    ELSE 0

\* self._tasks.pop(key, None)
Untrack(tracked, key) == SelectSeq(tracked, LAMBDA e : e.key # key)

\* lines 302-304: the three pops of _remove_speaker_info
Popped(st, key) ==
    [st EXCEPT !.tracked = Untrack(@, key),
               !.running = Without(@, key),
               !.managers = Without(@, key)]

\* the loop of stop over keys_to_remove, up to the first await of a task;
\* st holds the three dicts and the tasks
RECURSIVE RemoveFrom(_, _)
RemoveFrom(st, keys) ==
    IF keys = <<>> THEN [st EXCEPT !.keys = <<>>, !.waiting = 0]
    ELSE LET key == Head(keys)
             t == TaskOf(st.tracked, key)
             flagged == [st EXCEPT !.running = (key :> FALSE) @@ @]
         IN  IF t # 0 /\ st.tasks[t].pc # "done"
             THEN [flagged EXCEPT !.tasks[t].cancel = TRUE,
                                  !.keys = keys, !.waiting = t]
             ELSE RemoveFrom(Popped(flagged, key), Tail(keys))

\* the state RemoveFrom works on, for the caller c
Speaker(c) ==
    [tracked |-> _tasks, running |-> _running, managers |-> _managers,
     tasks |-> tasks, keys |-> evict[c].keys, waiting |-> evict[c].waiting]

\* the state RemoveFrom has left, for the caller c
Becomes(c, st) ==
    /\ _tasks' = st.tracked
    /\ _running' = st.running
    /\ _managers' = st.managers
    /\ tasks' = st.tasks
    /\ evict' = [evict EXCEPT ![c] = [keys |-> st.keys, waiting |-> st.waiting]]

\* now.hour * 60 + now.minute
NowMinutes == (clock \div 60000) % MinutesOfDay

\* a send that looks at the restriction only after it has made sure of the
\* manager and the task of the endpoint
SentCreatesFirst(sensor, commands) ==
    LET key == sensor.key
        create == key \notin TaskKeys(_tasks)
    IN  [managers |-> IF create
                      THEN (key :> AlertManager(sensor.max_time, sensor.pause_time))
                           @@ _managers
                      ELSE _managers,
         running |-> IF create THEN (key :> TRUE) @@ _running ELSE _running,
         tracked |-> IF create
                     THEN Append(_tasks, [key |-> key, task |-> Len(tasks) + 1])
                     ELSE _tasks,
         tasks |-> IF create
                   THEN Append(tasks, [key |-> key, pc |-> "ready", cancel |-> FALSE])
                   ELSE tasks,
         sends |-> sends]

\* a send that hands every alarm of the list to add_event
RECURSIVE AddedAll(_, _)
AddedAll(m, commands) ==
    IF commands = <<>> THEN m
    ELSE AddedAll(add_event(m, clock, Head(commands).alarm_value,
                            Head(commands).priority, Head(commands).regen_interval),
                  Tail(commands))

\* lines 251-257: the first command goes to add_event
Added(m, commands) ==
    IF commands = <<>> THEN m
    ELSE add_event(m, clock, commands[1].alarm_value, commands[1].priority,
                   commands[1].regen_interval)

\* AEPELSpeakerAlarm.send(sensor, commands): the dicts, the tasks and the
\* count of scheduled events afterwards
Sent(sensor, commands) ==
    IF is_current_time_restricted(sensor, NowMinutes)
    THEN [managers |-> _managers, running |-> _running, tracked |-> _tasks,
          tasks |-> tasks, sends |-> sends]
    ELSE LET key == sensor.key
             create == key \notin TaskKeys(_tasks)
             managers == IF create
                         THEN (key :> AlertManager(sensor.max_time,
                                                   sensor.pause_time))
                              @@ _managers
                         ELSE _managers
         IN  [managers |->
                 IF key \in DOMAIN managers
                 THEN [managers EXCEPT ![key] =
                         Added([@ EXCEPT !.max_time_second = sensor.max_time,
                                         !.pause_time_second = sensor.pause_time],
                               commands)]
                 ELSE managers,
              running |-> IF create THEN (key :> TRUE) @@ _running ELSE _running,
              tracked |-> IF create
                          THEN Append(_tasks, [key |-> key, task |-> Len(tasks) + 1])
                          ELSE _tasks,
              tasks |-> IF create
                        THEN Append(tasks, [key |-> key, pc |-> "ready",
                                            cancel |-> FALSE])
                        ELSE tasks,
              sends |-> IF key \in DOMAIN managers /\ commands # <<>>
                        THEN sends + 1 ELSE sends]

\* the handler calls send
speaker_send(sensor, commands) ==
    /\ evict["handler"].waiting = 0
    /\ sends < MaxSends
    /\ _managers' = Sent(sensor, commands).managers
    /\ _running' = Sent(sensor, commands).running
    /\ _tasks' = Sent(sensor, commands).tracked
    /\ tasks' = Sent(sensor, commands).tasks
    /\ sends' = Sent(sensor, commands).sends
    /\ UNCHANGED <<evict, cleanup_pc, gathered, mgr, clock, lowest, callv, appv>>

\* a stop that evicts whenever an endpoint is tracked
OverCapAny == Len(_tasks) > 0

\* line 282: len(self._tasks) > 16
OverCap == Len(_tasks) > MaxTasks

\* what stop leaves for its caller c, up to its first await: at line 282 it
\* either goes through all the keys or does nothing
Stopped(c) ==
    IF OverCap THEN RemoveFrom(Speaker(c), KeyList(_tasks)) ELSE Speaker(c)

\* AEPELSpeakerAlarm.stop(sensor, alarm) called by c, up to its first await
speaker_stop(c) ==
    /\ evict[c] = [keys |-> <<>>, waiting |-> 0]
    /\ Becomes(c, Stopped(c))
    /\ UNCHANGED <<cleanup_pc, gathered, sends, mgr, clock, lowest, callv, appv>>

\* `await task` of _remove_speaker_info returns to c: the pops, and on
\* through the remaining keys up to the next await.  Callers that await the
\* same task are resumed in the order in which they began to wait, and both
\* orders of beginning occur.
_remove_speaker_info_return(c) ==
    /\ evict[c].waiting # 0
    /\ tasks[evict[c].waiting].pc = "done"
    /\ Becomes(c, RemoveFrom(Popped(Speaker(c), Head(evict[c].keys)),
                             Tail(evict[c].keys)))
    /\ UNCHANGED <<cleanup_pc, gathered, sends, mgr, clock, lowest, callv, appv>>

\* the tracked tasks that are not done
Live == { t \in 1..Len(tasks) :
            /\ tasks[t].pc # "done"
            /\ \E i \in 1..Len(_tasks) : _tasks[i].task = t }

\* AEPELSpeakerAlarm.cleanup() up to the gather, or to its end when there is
\* nothing to await
cleanup ==
    /\ cleanup_pc = "idle"
    /\ IF Live # {}
       THEN /\ _running' = [k \in DOMAIN _running |-> FALSE]
            /\ tasks' = [t \in 1..Len(tasks) |->
                            IF t \in Live THEN [tasks[t] EXCEPT !.cancel = TRUE]
                            ELSE tasks[t]]
            /\ gathered' = Live
            /\ cleanup_pc' = "gather"
            /\ UNCHANGED <<_managers, _tasks>>
       ELSE /\ _running' = <<>>
            /\ _tasks' = <<>>
            /\ _managers' = <<>>
            /\ cleanup_pc' = "done"
            /\ UNCHANGED <<tasks, gathered>>
    /\ UNCHANGED <<evict, sends, mgr, clock, lowest, callv, appv>>

\* the gather returns (after the callers that awaited one of the tasks
\* before have been resumed): the three clears
cleanup_return ==
    /\ cleanup_pc = "gather"
    /\ \A t \in gathered : tasks[t].pc = "done"
    /\ \A c \in Evictors :
          IF evict[c].waiting = 0 THEN TRUE
          ELSE tasks[evict[c].waiting].pc # "done"
    /\ _running' = <<>>
    /\ _tasks' = <<>>
    /\ _managers' = <<>>
    /\ cleanup_pc' = "done"
    /\ gathered' = {}
    /\ UNCHANGED <<tasks, evict, sends, mgr, clock, lowest, callv, appv>>

\* _speaker_task(key) from the top of its loop to its next await
_speaker_task(t) ==
    /\ t <= Len(tasks)
    /\ tasks[t].pc \in {"ready", "sleep"}
    /\ ~tasks[t].cancel
    /\ LET key == tasks[t].key
       IN  IF ~(key \in DOMAIN _running /\ _running[key])
           THEN /\ tasks' = [tasks EXCEPT ![t].pc = "done"]
                /\ UNCHANGED _managers
           ELSE IF key \notin DOMAIN _managers \/ ~_managers[key].next_alert.is_set
           THEN /\ tasks' = [tasks EXCEPT ![t].pc = "sleep"]
                /\ UNCHANGED _managers
           ELSE LET r == get_next_event(_managers[key], clock)
                IN  /\ _managers' = [_managers EXCEPT ![key] = r.mgr]
                    /\ tasks' = [tasks EXCEPT
                                   ![t].pc = IF r.port = "" THEN "sleep" ELSE "play"]
    /\ UNCHANGED <<_tasks, _running, evict, cleanup_pc, gathered, sends,
                   mgr, clock, lowest, callv, appv>>

\* the play request of the task has returned or failed, and the pause is over
_speaker_task_played(t) ==
    /\ t <= Len(tasks)
    /\ tasks[t].pc = "play"
    /\ ~tasks[t].cancel
    /\ tasks' = [tasks EXCEPT ![t].pc = "sleep"]
    /\ UNCHANGED <<_managers, _tasks, _running, evict, cleanup_pc, gathered, sends,
                   mgr, clock, lowest, callv, appv>>

\* the tasks cancelled in one run of their canceller get their
\* CancelledError in the next iteration of the event loop
_speaker_task_cancelled ==
    /\ \E t \in 1..Len(tasks) : tasks[t].cancel /\ tasks[t].pc # "done"
    /\ tasks' = [t \in 1..Len(tasks) |->
                    IF tasks[t].cancel THEN [tasks[t] EXCEPT !.pc = "done"]
                    ELSE tasks[t]]
    /\ UNCHANGED <<_managers, _tasks, _running, evict, cleanup_pc, gathered, sends,
                   mgr, clock, lowest, callv, appv>>

\* a manager whose one event has been played
IdleManager == get_next_event(add_event(AlertManager(120, 2), 0, "1", 1, 0), 0).mgr

\* the speakers of the sends: two endpoints that are not tracked at the
\* beginning, the first of them also under a sensor that is restricted all day
\* and one that is restricted in the afternoon
SpeakerSensors ==
    [key : (Idle + 1)..(Idle + 2), max_time : {120}, pause_time : {2},
     is_time_restricted : {FALSE}, time_restricted_start : {0},
     time_restricted_end : {0}]
    \cup
    [key : {Idle + 1}, max_time : {120}, pause_time : {2},
     is_time_restricted : {TRUE}, time_restricted_start : {0, 720},
     time_restricted_end : {MinutesOfDay - 1}]

\* the alarms of the command lists: alarm_value is the voice port
SpeakerAlarms ==
    [alarm_value : VoicePorts, priority : Priorities, regen_interval : Intervals]

\* the lists of at most two alarms
CommandLists == UNION { [1..n -> SpeakerAlarms] : n \in 0..2 }

\* the command lists the handler sends
SpeakerCommands ==
    { <<[alarm_value |-> "1", priority |-> 1, regen_interval |-> 0]>>,
      <<[alarm_value |-> "1", priority |-> 1, regen_interval |-> 0],
        [alarm_value |-> "2", priority |-> 2, regen_interval |-> 0]>> }

\* Idle endpoints have been sent to and have played
InitSpeaker ==
    /\ _sensors = ("S1" :> "T1")
    /\ _sensor_types = TypeNames
    /\ InitService
    /\ InitCache
    /\ InitShutdown
    /\ mgr = NoManager
    /\ clock = 0
    /\ lowest = <<>>
    /\ arg = <<>>
    /\ ret = <<>>
    /\ _managers = [k \in 1..Idle |-> IdleManager]
    /\ _tasks = [k \in 1..Idle |-> [key |-> k, task |-> k]]
    /\ _running = [k \in 1..Idle |-> TRUE]
    /\ tasks = [k \in 1..Idle |-> [key |-> k, pc |-> "sleep", cancel |-> FALSE]]
    /\ evict = [c \in Evictors |-> [keys |-> <<>>, waiting |-> 0]]
    /\ cleanup_pc = "idle"
    /\ gathered = {}
    /\ sends = 0

NextSpeaker ==
    \/ \E sensor \in SpeakerSensors, commands \in SpeakerCommands :
          speaker_send(sensor, commands)
    \/ \E c \in Evictors : speaker_stop(c)
    \/ \E c \in Evictors : _remove_speaker_info_return(c)
    \/ cleanup
    \/ cleanup_return
    \/ \E t \in 1..(Idle + MaxSends) : _speaker_task(t)
    \/ \E t \in 1..(Idle + MaxSends) : _speaker_task_played(t)
    \/ _speaker_task_cancelled

SpecSpeaker == InitSpeaker /\ [][NextSpeaker]_vars

\* the tasks of the endpoint that run: not ended, not cancelled, and with the
\* running flag of the endpoint set, so that they stay in their loop
Running(key) ==
    { t \in 1..Len(tasks) :
        /\ tasks[t].key = key
        /\ tasks[t].pc # "done"
        /\ ~tasks[t].cancel
        /\ key \in DOMAIN _running
        /\ _running[key] }

\* the task is in none of the entries of _tasks
Released(t) == \A i \in 1..Len(_tasks) : _tasks[i].task # t

\* C14: one manager and one task per endpoint.  In every state each endpoint
\* has at most one manager (it is a key of _managers) and at most one
\* running background task.
C14_OneTaskPerEndpoint ==
    \A key \in 1..(Idle + 2) : Cardinality(Running(key)) <= 1

\* C15: cancel before remove.  A task whose entries have been released by an
\* eviction or by cleanup issues no play request.
C15_NoPlayAfterRelease ==
    [][ \A t \in 1..Len(tasks) :
          (Released(t) /\ tasks[t].pc # "play") => tasks'[t].pc # "play" ]_vars

\* C16: endpoint cap.  While more than 16 endpoints are tracked, no further
\* event is scheduled and no further endpoint is tracked.
C16_EvictBeforeFurtherEvent ==
    [][ Len(_tasks) > MaxTasks =>
          (sends' = sends /\ Len(_tasks') <= Len(_tasks)) ]_vars

---------------------------------------------------------------------------
(* app/alarms/iologik_e1211.py: the read-back after the write of send and of
   stop, and what they log. *)

\* what the GET of _get_do_state meets
Replies == {"on", "off", "refused", "timeout", "non2xx", "unparsable",
            "no_entry", "no_status"}

\* _get_do_state: 1 = On, 0 = Off, -1 for a failed request, a non-2xx answer
\* or a body without the status
_get_do_state(reply) ==
    CASE reply = "on" -> 1
      [] reply = "off" -> 0
      [] OTHER -> -1

\* the status send (lines 134-136) or stop (lines 200-202) asks for
Requested(op, on_off) ==
    IF op = "send"
    THEN IF on_off = NoOnOff THEN "On" ELSE IF on_off = 1 THEN "On" ELSE "Off"
    ELSE IF on_off = NoOnOff THEN "Off" ELSE IF on_off = 1 THEN "Off" ELSE "On"

\* lines 159-165 and 225-231: current is On for 1 and Off for everything else
ReadBack(current_raw, status) ==
    (IF current_raw = 1 THEN "On" ELSE "Off") = status

\* what one alarm of send, or stop, logs last
IoLogikLog(op, alarm_value, on_off, reply) ==
    IF ~IsNumeric(alarm_value) THEN "Failure"
    ELSE IF ReadBack(_get_do_state(reply), Requested(op, on_off))
    THEN "Success" ELSE "Failure"

VerifyArgs ==
    [op : {"send", "stop"}, alarm_value : {"1", "x"}, on_off : {NoOnOff, 0, 1},
     put : Outcomes \ {"nak"}, reply : Replies]

\* IoLogikE1211Alarm.send for one alarm, or stop
IoLogikVerify ==
    /\ ret = <<>>
    /\ ret' = <<IoLogikLog(arg.op, arg.alarm_value, arg.on_off, arg.reply)>>
    /\ UNCHANGED <<arg, mgr, clock, lowest, appv, speakerv>>

InitVerify ==
    /\ _sensors = ("S2" :> "T2")
    /\ _sensor_types = TypeNames
    /\ InitService
    /\ InitCache
    /\ InitShutdown
    /\ mgr = NoManager
    /\ clock = 0
    /\ lowest = <<>>
    /\ arg \in VerifyArgs
    /\ ret = <<>>
    /\ NoSpeakers

NextVerify == IoLogikVerify

SpecVerify == InitVerify /\ [][NextVerify]_vars

\* C21: read-after-write verification.  "Success" is logged exactly when the
\* GET after the PUT shows the output in the requested state; a failed read
\* (error, timeout, non-2xx, unparsable body) or the other state gives
\* "Failure", whether On or Off was requested.
C21_VerificationSound ==
    ret # <<>> =>
        (ret[1] = "Success" <=>
            /\ IsNumeric(arg.alarm_value)
            /\ \/ arg.reply = "on" /\ Requested(arg.op, arg.on_off) = "On"
               \/ arg.reply = "off" /\ Requested(arg.op, arg.on_off) = "Off")

---------------------------------------------------------------------------
(* The scheduler of one speaker, continued: the slot between two pops. *)

\* C22: single-slot priority.  After every step a pending candidate has the
\* least priority number of the events add_event has let past its
\* max-duration check since the slot was last empty, and as long as a
\* candidate is pending its priority number never grows: an event of
\* strictly higher priority replaces it, one of strictly lower priority
\* never does.
C22_SlotHoldsBestPriority ==
    [][ /\ mgr'.next_alert.is_set =>
              (lowest' # <<>> /\ mgr'.next_alert.priority = lowest'[1])
        /\ (mgr.next_alert.is_set /\ mgr'.next_alert.is_set) =>
              mgr'.next_alert.priority <= mgr.next_alert.priority ]_vars

\* a candidate of priority 1 is pending, and the other port has been
\* offered with priority 2 since the slot was empty
C22_Witness ==
    /\ mgr.next_alert.is_set
    /\ mgr.next_alert.priority = 1
    /\ lowest = <<1>>
    /\ \E vp \in DOMAIN mgr.alert_states :
          /\ vp # mgr.next_alert.voice_port
          /\ mgr.alert_states[vp].priority = 2
          /\ mgr.alert_states[vp].last_detected_time
                >= mgr.next_alert.last_detected_time
          /\ ~CutOff(mgr, clock, mgr.alert_states[vp])

\* C23: max-duration cut-off.  An add_event call at the present time, for
\* any port, priority and interval: refreshes the detection time of the port;
\* leaves the window start of a port whose previous detection is at most
\* interval + 2000 ms old and sets it to now for one whose previous detection
\* is older; and leaves the slot as it is when the window start is then
\* more than max_time_second seconds old.
C23_MaxDurationCutOff ==
    \A vp \in VoicePorts, p \in Priorities, i \in Intervals :
        LET after == add_event(mgr, clock, vp, p, i)
            seen == vp \in DOMAIN mgr.alert_states
            stale == clock - mgr.alert_states[vp].last_detected_time
                        > i + MARGIN_TIMEOUT_TIME
        IN  /\ after.alert_states[vp].last_detected_time = clock
            /\ seen =>
                  after.alert_states[vp].start_time =
                     IF stale THEN clock ELSE mgr.alert_states[vp].start_time
            /\ clock - after.alert_states[vp].start_time
                   > after.max_time_second * 1000 =>
                  after.next_alert = mgr.next_alert

\* a port detected without a gap for longer than max_time_second, the slot
\* empty: add_event for it leaves the slot empty
C23_Witness ==
    /\ ~mgr.next_alert.is_set
    /\ \E vp \in DOMAIN mgr.alert_states :
          /\ clock - mgr.alert_states[vp].last_detected_time <= MARGIN_TIMEOUT_TIME
          /\ clock - mgr.alert_states[vp].start_time > mgr.max_time_second * 1000
          /\ ~add_event(mgr, clock, vp, 1, 0).next_alert.is_set

\* C24: pop re-validation.  get_next_event at the present time leaves the
\* slot empty; with a pending candidate whose last detection is at most
\* interval + 2000 ms old and whose window start is at most max_time_second
\* seconds old it returns the voice port of the candidate and stamps the last
\* play time of that port; otherwise it returns nothing and stamps nothing;
\* a second pop right after returns nothing.
C24_PopRevalidates ==
    LET next == mgr.next_alert
        popped == get_next_event(mgr, clock)
        fresh == /\ clock - next.last_detected_time
                       <= next.event_interval + MARGIN_TIMEOUT_TIME
                 /\ clock - next.start_time <= mgr.max_time_second * 1000
    IN  /\ ~popped.mgr.next_alert.is_set
        /\ get_next_event(popped.mgr, clock).port = ""
        /\ IF next.is_set /\ fresh
           THEN /\ popped.port = next.voice_port
                /\ popped.mgr.alert_states =
                      [mgr.alert_states EXCEPT ![next.voice_port].last_alert_time = clock]
           ELSE /\ popped.port = ""
                /\ popped.mgr.alert_states = mgr.alert_states

\* a pending candidate that was last detected too long ago: the pop returns
\* nothing
C24_Witness ==
    /\ mgr.next_alert.is_set
    /\ clock - mgr.next_alert.last_detected_time
          > mgr.next_alert.event_interval + MARGIN_TIMEOUT_TIME
    /\ get_next_event(mgr, clock).port = ""

---------------------------------------------------------------------------
(* The speaker driver, continued: what one call of send or stop changes. *)

\* the dicts, the tasks and the count as they are
Unsent ==
    [managers |-> _managers, running |-> _running, tracked |-> _tasks,
     tasks |-> tasks, sends |-> sends]

\* now is inside the restriction window of the sensor
Restricted(sensor) ==
    /\ sensor.is_time_restricted
    /\ sensor.time_restricted_start <= NowMinutes
    /\ NowMinutes <= sensor.time_restricted_end

\* C25: restricted send.  A send for a sensor whose restriction is in
\* effect, with any command list, changes nothing: no manager and no task is
\* created, and the managers that exist keep their alert states and slot.
C25_RestrictedSendDrops ==
    \A sensor \in SpeakerSensors, commands \in CommandLists :
        Restricted(sensor) => Sent(sensor, commands) = Unsent

\* the endpoint of the restricted sensor has a manager with a pending
\* candidate, and a send for an unrestricted sensor of the same endpoint
\* would change something
C25_Witness ==
    \E sensor \in SpeakerSensors, other \in SpeakerSensors :
        /\ Restricted(sensor)
        /\ ~other.is_time_restricted
        /\ other.key = sensor.key
        /\ sensor.key \in DOMAIN _managers
        /\ _managers[sensor.key].next_alert.is_set
        /\ Sent(other, <<[alarm_value |-> "2", priority |-> 1,
                          regen_interval |-> 0]>>) # Unsent

\* the manager add_event is called on: the one of the endpoint with the
\* settings of the sensor, a new one for an endpoint that is not tracked
ManagerFor(sensor) ==
    IF sensor.key \in TaskKeys(_tasks)
    THEN [_managers[sensor.key] EXCEPT !.max_time_second = sensor.max_time,
                                       !.pause_time_second = sensor.pause_time]
    ELSE AlertManager(sensor.max_time, sensor.pause_time)

\* C27: one event per send.  A send that is not restricted, with a list of
\* one or two alarms, leaves the manager of the endpoint as one add_event
\* call with the value, priority and regen interval of the first alarm
\* leaves it, counts one scheduled event, and does in all what the send of
\* the first alarm alone does.
C27_FirstAlarmOnly ==
    \A sensor \in SpeakerSensors :
        ~Restricted(sensor) =>
            \A first \in SpeakerAlarms :
                LET after == Sent(sensor, <<first>>)
                IN  /\ after.managers[sensor.key] =
                          add_event(ManagerFor(sensor), clock, first.alarm_value,
                                    first.priority, first.regen_interval)
                    /\ after.sends = sends + 1
                    /\ \A second \in SpeakerAlarms :
                          Sent(sensor, <<first, second>>) = after

\* an endpoint whose manager has played and has an empty slot: the send of a
\* list whose first alarm has priority 2 and whose second has priority 1
\* makes the first the candidate
C27_Witness ==
    \E sensor \in SpeakerSensors :
        /\ ~Restricted(sensor)
        /\ sensor.key \in DOMAIN _managers
        /\ ~_managers[sensor.key].next_alert.is_set
        /\ Sent(sensor, <<[alarm_value |-> "1", priority |-> 2, regen_interval |-> 0],
                          [alarm_value |-> "2", priority |-> 1, regen_interval |-> 0]>>)
              .managers[sensor.key].next_alert.priority = 2

\* C30: stop below the cap is a no-op.  A stop while at most 16 endpoints are
\* tracked leaves the managers, the tasks, the running flags, the alert
\* states and the pending candidates as they are, so that a candidate
\* accepted before the stop is popped afterwards exactly as it would have
\* been without the stop.
C30_StopBelowCapNoOp ==
    \A c \in Evictors :
        (evict[c] = [keys |-> <<>>, waiting |-> 0] /\ Len(_tasks) <= MaxTasks) =>
            /\ Stopped(c) = Speaker(c)
            /\ \A key \in DOMAIN _managers :
                  _managers[key].next_alert.is_set =>
                      get_next_event(Stopped(c).managers[key], clock) =
                          get_next_event(_managers[key], clock)

\* a stop may be called while at most 16 endpoints are tracked, one of them
\* with a pending candidate that passes the checks of the pop
C30_Witness ==
    /\ Len(_tasks) <= MaxTasks
    /\ Len(_tasks) > 0
    /\ evict["handler"] = [keys |-> <<>>, waiting |-> 0]
    /\ \E key \in DOMAIN _managers :
          /\ _managers[key].next_alert.is_set
          /\ get_next_event(_managers[key], clock).port # ""
          /\ Running(key) # {}

---------------------------------------------------------------------------
(* The active set between the calls *)

\* neither the handler nor a tick of the timer is under way
Quiet == hpc = "idle" /\ tpc \in {"sleep", "exited", "dead"}

\* C29: idle sensors have no entry.  Once the handler and the tick that
\* touched a sensor have finished, every sensor id in _active_sensors maps
\* to a list that is not empty.
C29_NoEmptyEntry ==
    Quiet => \A i \in 1..Len(_active_sensors) : _active_sensors[i].alarms # <<>>

\* the timer is at an element of to_remove (line 165)
AtRemoval == run = "timer" /\ tpc = "remove"

\* C28: the timer removes only what is expired at the moment of removal.  When
\* the loop over to_remove comes to an alarm whose duration is positive (a
\* message refreshed it while the timer was suspended in the stop for
\* another alarm of the tick), the alarm stays in the active set and no stop
\* is issued for its sensor.
C28_RemovesOnlyExpired ==
    [][ (AtRemoval /\ heap[Head(to_remove)[2]].duration > 0) =>
            /\ (Head(to_remove)[2] \in ActiveIds(_active_sensors) =>
                   Head(to_remove)[2] \in ActiveIds(_active_sensors'))
            /\ lastCmd' = lastCmd ]_vars

\* C26: expiry issues a stop only when the set empties.  When the timer
\* removes an alarm and other alarms of the sensor remain, no driver call is
\* made and the entry stays, one alarm shorter; when the removal leaves the
\* list empty, the entry is dropped and, for a sensor with a driver, one stop
\* is issued for it with the alarm just removed.
C26_StopOnlyWhenEmptied ==
    [][ AtRemoval =>
          LET sid == Head(to_remove)[1]
              alarm == Head(to_remove)[2]
              alarms == Get(_active_sensors, sid)
          IN  EqualAt(heap, alarms, alarm) # {} =>
                IF Len(alarms) > 1
                THEN /\ lastCmd' = lastCmd
                     /\ tpc' \notin {"stop_wait", "dead"}
                     /\ Len(Get(_active_sensors', sid)) = Len(alarms) - 1
                ELSE /\ sid \notin Keys(_active_sensors')
                     /\ ModuleFor(sid) # NotFound =>
                           /\ lastCmd' = [lastCmd EXCEPT ![sid] = "stop"]
                           /\ tpc' = "stop_wait" =>
                                 tcall' = [protocol |-> ModuleFor(sid),
                                           values |-> <<heap[alarm].alarm_value>>]
      ]_vars

\* the timer waits in the stop for a sensor whose last alarm it has removed,
\* while a sensor whose alarms have been counted down keeps its entry
C26_Witness ==
    /\ tpc = "stop_wait"
    /\ to_remove # <<>>
    /\ Head(to_remove)[1] \notin Keys(_active_sensors)
    /\ tcall.values = <<heap[Head(to_remove)[2]].alarm_value>>
    /\ lastCmd[Head(to_remove)[1]] = "stop"
    /\ \E i \in 1..Len(_active_sensors) :
          \E j \in 1..Len(_active_sensors[i].alarms) :
             heap[_active_sensors[i].alarms[j]].ticks > 0


====
